---- MODULE Spec2Model ----
(***************************************************************************)
(* Model of the nonprofit partner finder: the ZIP-prefixed search          *)
(* endpoints under api/ (query parsing, location lookup, geographic        *)
(* tiering, truncation) and the partnership ranking engine under src/.     *)
(*                                                                         *)
(* Strings on which the code computes (lower(), split(), substring tests,  *)
(* sorting by name) are sequences of one-character strings.  Strings the   *)
(* code only compares for equality (state codes, county names) are TLA+    *)
(* strings.  Scores are integers: registry relevance scores as they come,  *)
(* sub-scores of the ranking engine in units of 1/Unit, weights in         *)
(* percent.                                                                *)
(*                                                                         *)
(* Each handler file has a cache of its own.  The variable cache is the    *)
(* cache of the one handler file a specification is about: api/index.py    *)
(* in SpecCache, api/tiger_search.py in SpecKeys, api/final_search.py in   *)
(* SpecStale, and in SpecRace the cache two concurrent calls share.  In    *)
(* the other specifications the registry answer and the geocoder answer a  *)
(* request takes as input stand for what get_cached_or_fetch handed to the *)
(* handler, fresh or cached.                                               *)
(***************************************************************************)
EXTENDS Integers, Sequences, FiniteSets, TLC

VARIABLES
    pc,        \* "idle" between requests, "done" once a handler has answered
    request,   \* the request being served: endpoint and its inputs
    response,  \* what the handler returned (or that it raised)
    criteria,  \* ranking_engine.criteria, the module-level engine of main.py
    cache,     \* the module-level cache of a handler file: key -> (data, timestamp)
    now        \* the wall clock, in seconds

vars == <<pc, request, response, criteria, cache, now>>

-----------------------------------------------------------------------------
(* Bounds of the model *)

\* longest freely chosen prefix of a registry payload
MaxFree == 2
\* longest run of same-place organizations appended to a registry payload
MaxBulk == 11
\* most tokens of a query of the parsing specification
MaxTokens == 2
\* longest batch of the ranking specification
\* the most analyses of one organization in a row
MaxPasses == 3

\* the longest registry payload of the scenario specification
MaxListed == 3

\* the longest financial history of the finance specification
MaxYears == 2

\* the clock stops at MaxTime seconds
MaxTime == 7300

MaxBatch == 3

-----------------------------------------------------------------------------
(* Python values *)

\* None where the model needs it as a number (Optional[float], Optional[int])
None == -1

Min(a, b) == IF a <= b THEN a ELSE b

\* l[:n]
Take(l, n) == SubSeq(l, 1, Min(n, Len(l)))

\* list.sort(key=...): the stable sort of l by ascending key, key[i] being the
\* key of l[i], written as the position each element ends at: after every
\* element of smaller key and after the elements of equal key that preceded it
StableSort(l, key) ==
    LET pos(i) == 1 + Cardinality({j \in DOMAIN l :
                        \/ key[j] < key[i]
                        \/ (key[j] = key[i] /\ j < i)})
    IN [p \in DOMAIN l |-> l[CHOOSE i \in DOMAIN l : pos(i) = p]]

\* list.sort(key=..., reverse=True): descending key, equal keys still in their
\* original order
StableSortReverse(l, key) == StableSort(l, [i \in DOMAIN l |-> 0 - key[i]])

Range(l) == {l[i] : i \in DOMAIN l}

-----------------------------------------------------------------------------
(* Strings as sequences of characters *)

UpperCase == <<"A","B","C","D","E","F","G","H","I","J","K","L","M",
               "N","O","P","Q","R","S","T","U","V","W","X","Y","Z">>
LowerCase == <<"a","b","c","d","e","f","g","h","i","j","k","l","m",
               "n","o","p","q","r","s","t","u","v","w","x","y","z">>
Digits == <<"0","1","2","3","4","5","6","7","8","9">>

\* the characters of the model in code-point order
Alphabet == <<" ">> \o Digits \o UpperCase \o LowerCase

Ord(c) == CHOOSE i \in DOMAIN Alphabet : Alphabet[i] = c

\* str.lower(), character by character
LowerChar(c) ==
    IF \E i \in DOMAIN UpperCase : UpperCase[i] = c
    THEN LowerCase[CHOOSE i \in DOMAIN UpperCase : UpperCase[i] = c]
    ELSE c

Lower(s) == [i \in DOMAIN s |-> LowerChar(s[i])]

\* a in b, for strings
IsSubstring(a, b) ==
    \E i \in 0..(Len(b) - Len(a)) : SubSeq(b, i + 1, i + Len(a)) = a

\* a < b, Python's comparison of strings
RECURSIVE StrLess(_, _)
StrLess(a, b) ==
    IF b = <<>> THEN FALSE
    ELSE IF a = <<>> THEN TRUE
    ELSE IF Head(a) = Head(b) THEN StrLess(Tail(a), Tail(b))
    ELSE Ord(Head(a)) < Ord(Head(b))

\* sorted(list(S)) for a set of strings
RECURSIVE SortedStrings(_)
SortedStrings(S) ==
    IF S = {} THEN <<>>
    ELSE LET m == CHOOSE x \in S : \A y \in S \ {x} : StrLess(x, y)
         IN <<m>> \o SortedStrings(S \ {m})

-----------------------------------------------------------------------------
(* City names and ZIP codes used by the model *)

sDallas     == <<"D","a","l","l","a","s">>
sDALLAS     == <<"D","A","L","L","A","S">>
sIrving     == <<"I","r","v","i","n","g">>
sIRVING     == <<"I","R","V","I","N","G">>
sRichardson == <<"R","i","c","h","a","r","d","s","o","n">>
sPlano      == <<"P","l","a","n","o">>
sAustin     == <<"A","u","s","t","i","n">>
sMiami      == <<"M","i","a","m","i">>
sMiamiBeach == <<"M","i","a","m","i"," ","B","e","a","c","h">>
sEmpty      == <<>>

z75201 == <<"7","5","2","0","1">>
z75038 == <<"7","5","0","3","8">>
z75080 == <<"7","5","0","8","0">>
z75074 == <<"7","5","0","7","4">>
z33101 == <<"3","3","1","0","1">>
z33139 == <<"3","3","1","3","9">>

\* the rows of final_search's ZIP_COUNTY_MAP the model keeps
ZIP_COUNTY_MAP ==
    (z75201 :> <<sDallas, "Dallas County", "TX">>) @@
    (z75038 :> <<sIrving, "Dallas County", "TX">>) @@
    (z75080 :> <<sRichardson, "Dallas County", "TX">>) @@
    (z75074 :> <<sPlano, "Collin County", "TX">>) @@
    (z33101 :> <<sMiami, "Miami-Dade County", "FL">>) @@
    (z33139 :> <<sMiamiBeach, "Miami-Dade County", "FL">>)

get_location_from_zip(zip_code) ==
    IF zip_code \in DOMAIN ZIP_COUNTY_MAP
    THEN [found |-> TRUE,
          city |-> ZIP_COUNTY_MAP[zip_code][1],
          county |-> ZIP_COUNTY_MAP[zip_code][2],
          state |-> ZIP_COUNTY_MAP[zip_code][3]]
    ELSE [found |-> FALSE]

\* get_cities_in_county that looks at the state alone
get_cities_in_county_OfState(county_name, state_abbr) ==
    SortedStrings({ZIP_COUNTY_MAP[z][1] : z \in
        {y \in DOMAIN ZIP_COUNTY_MAP : ZIP_COUNTY_MAP[y][3] = state_abbr}})

get_cities_in_county(county_name, state_abbr) ==
    SortedStrings({ZIP_COUNTY_MAP[z][1] : z \in
        {y \in DOMAIN ZIP_COUNTY_MAP :
            /\ ZIP_COUNTY_MAP[y][2] = county_name
            /\ ZIP_COUNTY_MAP[y][3] = state_abbr}})

-----------------------------------------------------------------------------
(* Registry payloads *)

\* One organization object of the registry's JSON: keys is the set of keys the
\* object has, city_null says that "city" is present with value null.
Org(ein, name, city, state, score) ==
    [keys |-> {"ein", "name", "city", "state", "score"}, city_null |-> FALSE,
     ein |-> ein, name |-> name, city |-> city, state |-> state, score |-> score]

\* org.get('city', ''): a string, or None (is_none) for a null city
GetCity(org) ==
    IF "city" \notin org.keys THEN [is_none |-> FALSE, s |-> sEmpty]
    ELSE IF org.city_null THEN [is_none |-> TRUE, s |-> sEmpty]
    ELSE [is_none |-> FALSE, s |-> org.city]

\* org.get('state', '')
GetState(org) == IF "state" \in org.keys THEN org.state ELSE ""

\* org.get('score', 0)
GetScore(org) == IF "score" \in org.keys THEN org.score ELSE 0

-----------------------------------------------------------------------------
(* final_search.py *)

\* An answer of the registry: status 200 with a JSON payload, another HTTP
\* status (one without a JSON body), or RegTimeout when the call raised
RegTimeout == 0

RegOk(reg) == reg.status = 200

\* fetch_results as get_cached_or_fetch hands it on: the organizations of the
\* payload, or the empty payload of the except branch
FetchResults(reg) == IF RegOk(reg) THEN reg.organizations ELSE <<>>

\* FinalPriority with a same-state branch that asks for a city as well
FinalPriority_StateNeedsCity(org, city, nearby_cities, state) ==
    IF city # sEmpty /\ Lower(city) = Lower(GetCity(org).s) THEN 1
    ELSE IF GetCity(org).s \in Range(nearby_cities) THEN 2
    ELSE IF GetState(org) = state /\ GetCity(org).s # sEmpty THEN 3
    ELSE 0

\* the first match of the if / elif chain of search_by_location: 1 exact city,
\* 2 same county, 3 same state, 0 no branch taken (the organization is appended
\* to no list)
FinalPriority(org, city, nearby_cities, state) ==
    IF city # sEmpty /\ Lower(city) = Lower(GetCity(org).s) THEN 1
    ELSE IF GetCity(org).s \in Range(nearby_cities) THEN 2
    ELSE IF GetState(org) = state THEN 3
    ELSE 0

\* the loop body raises: org['ein'] or org['name'] on a missing key (KeyError),
\* org_city.lower() on a null city (AttributeError)
FinalOrgRaises(org, city) ==
    \/ "ein" \notin org.keys
    \/ "name" \notin org.keys
    \/ (city # sEmpty /\ GetCity(org).is_none)

\* org_info of search_by_location (ntee_code and the distance text, which
\* repeat the record and the priority, are left out)
FinalOrgInfo(org, priority) ==
    [ein |-> org.ein, name |-> org.name, city |-> GetCity(org).s,
     state |-> GetState(org), score |-> GetScore(org), priority |-> priority]

\* the sort key without reverse=True
ScoreDesc_Ascending(l) == StableSort(l, [i \in DOMAIN l |-> l[i].score])

\* sort(key=score, reverse=True)
ScoreDesc(l) == StableSortReverse(l, [i \in DOMAIN l |-> l[i].score])

FinalCapCity == 10
FinalCapCounty == 8
FinalCapState == 2

\* FinalCombine with five state-tier entries
FinalCombine_FiveOfState(exact_city, same_county, same_state) ==
    Take(exact_city, FinalCapCity) \o Take(same_county, FinalCapCounty)
        \o Take(same_state, 5)

FinalCombine(exact_city, same_county, same_state) ==
    Take(exact_city, FinalCapCity) \o Take(same_county, FinalCapCounty)
        \o Take(same_state, FinalCapState)

final_search_by_location(location, keyword, zip_code, reg) ==
    LET city == location.city
        county == location.county
        state == location.state
        nearby_cities == get_cities_in_county(county, state)
        orgs == FetchResults(reg)
        prio(org) == FinalPriority(org, city, nearby_cities, state)
        tier(p) == SelectSeq(orgs, LAMBDA o : prio(o) = p)
        info(l, p) == [i \in DOMAIN l |-> FinalOrgInfo(l[i], p)]
        exact_city == ScoreDesc(info(tier(1), 1))
        same_county == ScoreDesc(info(tier(2), 2))
        same_state == ScoreDesc(info(tier(3), 3))
    IN IF \E i \in DOMAIN orgs : FinalOrgRaises(orgs[i], city)
       THEN [route |-> "by_location", outcome |-> "raised",
             zip_code |-> zip_code, keyword |-> keyword]
       ELSE [route |-> "by_location", outcome |-> "ok",
             zip_code |-> zip_code, keyword |-> keyword,
             location |-> location,
             exact_city |-> exact_city, same_county |-> same_county,
             same_state |-> same_state,
             total |-> Len(orgs),
             results |-> FinalCombine(exact_city, same_county, same_state),
             message |-> IF exact_city # <<>> THEN "city"
                         ELSE IF same_county # <<>> THEN "county"
                         ELSE IF same_state # <<>> THEN "state"
                         ELSE "none"]

\* the characters str.split() separates at
Whitespace == {" ", "\n"}

\* str.split(): the maximal runs of non-blank characters
RECURSIVE Split(_)
Split(s) ==
    IF s = <<>> THEN <<>>
    ELSE IF Head(s) \in Whitespace THEN Split(Tail(s))
    ELSE LET stop == IF \E i \in DOMAIN s : s[i] \in Whitespace
                     THEN CHOOSE i \in DOMAIN s :
                            /\ s[i] \in Whitespace
                            /\ \A j \in 1..(i - 1) : s[j] \notin Whitespace
                     ELSE Len(s) + 1
         IN <<SubSeq(s, 1, stop - 1)>> \o Split(SubSeq(s, stop, Len(s)))

\* ' '.join(parts)
RECURSIVE Join(_)
Join(parts) ==
    IF parts = <<>> THEN <<>>
    ELSE IF Len(parts) = 1 THEN parts[1]
    ELSE parts[1] \o <<" ">> \o Join(Tail(parts))

\* str.isdigit()
IsDigit(s) == s # <<>> /\ \A i \in DOMAIN s : s[i] \in Range(Digits)

ZipLen == 5

sNonprofit == <<"n","o","n","p","r","o","f","i","t">>

KeywordCap == 20

\* search_keyword: the registry answers reg; a failed call, a non-2xx status or
\* an organization without 'ein' or 'name' ends in the except branch
search_keyword(keyword, reg) ==
    LET orgs == Take(FetchResults(reg), KeywordCap)
    IN IF \/ ~RegOk(reg)
          \/ \E i \in DOMAIN orgs : {"ein", "name"} \ orgs[i].keys # {}
       THEN [route |-> "keyword", outcome |-> "ok", keyword |-> keyword,
             error |-> TRUE, results |-> <<>>]
       ELSE [route |-> "keyword", outcome |-> "ok", keyword |-> keyword,
             error |-> FALSE,
             results |-> [i \in DOMAIN orgs |->
                 [ein |-> orgs[i].ein, name |-> orgs[i].name,
                  city |-> GetCity(orgs[i]).s, state |-> GetState(orgs[i])]]]

\* fetch_zip: what the handler keeps of the geocoder's answer.  kind is "ok"
\* (status 200), "status" (another status), "exception" or "timeout"; places is
\* the place list of a 200 answer.  Every failure gives None (found FALSE).
fetch_zip(answer) ==
    IF answer.kind = "ok" /\ answer.places # <<>>
    THEN [found |-> TRUE, city |-> answer.places[1].city,
          state |-> answer.places[1].state,
          state_abbr |-> answer.places[1].state_abbr]
    ELSE [found |-> FALSE, cause |-> IF answer.kind = "ok" THEN "empty"
                                     ELSE answer.kind]

PriorityAsc(l) == StableSort(l, [i \in DOMAIN l |-> l[i].priority])

\* search_with_api_fallback: geo is what fetch_zip gave (found FALSE for None);
\* reg answers the location search, reg2 the keyword search it falls back to
search_with_api_fallback(zip_code, keyword, geo, reg, reg2) ==
    LET orgs == Take(FetchResults(reg), KeywordCap)
        prio(o) == IF IsSubstring(Lower(geo.city), Lower(GetCity(o).s)) THEN 1
                   ELSE IF GetState(o) = geo.state_abbr THEN 2
                   ELSE 3
        raises(o) == GetCity(o).is_none \/ {"ein", "name"} \ o.keys # {}
        results == [i \in DOMAIN orgs |->
                      [ein |-> orgs[i].ein, name |-> orgs[i].name,
                       city |-> GetCity(orgs[i]).s, state |-> GetState(orgs[i]),
                       priority |-> prio(orgs[i])]]
    IN IF geo.found /\ RegOk(reg) /\ ~\E i \in DOMAIN orgs : raises(orgs[i])
       THEN [route |-> "api_fallback", outcome |-> "ok",
             zip_code |-> zip_code, keyword |-> keyword,
             results |-> Take(PriorityAsc(results), KeywordCap)]
       ELSE search_keyword(keyword, reg2)

\* what a search did to resolve a location, kept beside its payload: whether
\* the static ZIP table was asked and whether the remote geocoder was asked
\* (through get_cached_or_fetch)
Lookups(static, geocoder) == [static_lookup |-> static, geocoder |-> geocoder]

\* geographic_search: the query is split, a first token of five digits is the
\* ZIP code, the static table is asked first
geographic_search(query, geo, reg, reg2) ==
    LET parts == Split(query)
    IN IF parts # <<>> /\ Len(parts[1]) = ZipLen /\ IsDigit(parts[1])
       THEN LET zip_code == parts[1]
                keyword == IF Len(parts) > 1 THEN Join(Tail(parts))
                           ELSE sNonprofit
                location == get_location_from_zip(zip_code)
            IN IF location.found
               THEN final_search_by_location(location, keyword, zip_code, reg)
                        @@ Lookups(TRUE, FALSE)
               ELSE search_with_api_fallback(zip_code, keyword, geo, reg, reg2)
                        @@ Lookups(TRUE, TRUE)
       ELSE search_keyword(query, reg) @@ Lookups(FALSE, FALSE)

\* the status of a request whose handler raised: no HTTP answer is written
NoAnswer == 0

\* do_GET of /api/final-search: 400 without a query, else 200 with the payload;
\* an exception of the search leaves the handler without an answer
final_do_GET(query, geo, reg, reg2) ==
    IF query = <<>> THEN [status |-> 400]
    ELSE LET results == geographic_search(query, geo, reg, reg2)
         IN IF results.outcome = "raised"
            THEN [status |-> NoAnswer, body |-> results]
            ELSE [status |-> 200, body |-> results]

-----------------------------------------------------------------------------
(* tiger_search.py *)

\* data/zip_county_mapping.py is not among the sources; its lookups are taken
\* to be the ones final_search.py carries inline
tiger_get_location_from_zip(zip_code) == get_location_from_zip(zip_code)

tiger_get_cities_in_county(county, state) == get_cities_in_county(county, state)

\* the if / elif chain of tiger's search_by_location: match_quality 100 exact
\* city, 80 same county, 50 same state, 0 no branch taken
TigerMatchQuality(org, city, nearby_cities, state) ==
    IF city # sEmpty /\ Lower(city) = Lower(GetCity(org).s) THEN 100
    ELSE IF GetCity(org).s \in Range(nearby_cities) THEN 80
    ELSE IF GetState(org) = state THEN 50
    ELSE 0

TigerOrgData(org, match_quality) ==
    [ein |-> org.ein, name |-> org.name, city |-> GetCity(org).s,
     state |-> GetState(org), score |-> GetScore(org),
     match_quality |-> match_quality]

TigerCapCity == 10
TigerCapCounty == 8
TigerCapState == 2

TigerCombine(exact_city_results, same_county_results, same_state_results) ==
    Take(exact_city_results, TigerCapCity)
        \o Take(same_county_results, TigerCapCounty)
        \o Take(same_state_results, TigerCapState)

tiger_search_by_location(location, keyword, zip_code, reg) ==
    LET city == location.city
        county == location.county
        state == location.state
        nearby_cities == tiger_get_cities_in_county(county, state)
        orgs == FetchResults(reg)
        mq(org) == TigerMatchQuality(org, city, nearby_cities, state)
        tier(q) == SelectSeq(orgs, LAMBDA o : mq(o) = q)
        data(l, q) == [i \in DOMAIN l |-> TigerOrgData(l[i], q)]
        exact_city_results == ScoreDesc(data(tier(100), 100))
        same_county_results == ScoreDesc(data(tier(80), 80))
        same_state_results == ScoreDesc(data(tier(50), 50))
    IN IF \E i \in DOMAIN orgs : FinalOrgRaises(orgs[i], city)
       THEN [route |-> "by_location", outcome |-> "raised",
             zip_code |-> zip_code, keyword |-> keyword]
       ELSE [route |-> "by_location", outcome |-> "ok",
             zip_code |-> zip_code, keyword |-> keyword,
             location |-> location,
             exact_city |-> exact_city_results,
             same_county |-> same_county_results,
             same_state |-> same_state_results,
             total |-> Len(orgs),
             results |-> TigerCombine(exact_city_results, same_county_results,
                                      same_state_results),
             message |-> IF exact_city_results # <<>> THEN "city"
                         ELSE IF same_county_results # <<>> THEN "county"
                         ELSE "none"]

MatchQualityDesc(l) ==
    StableSortReverse(l, [i \in DOMAIN l |-> l[i].match_quality])

\* search_with_zippopotam_fallback: the registry call is guarded (a failure is
\* an empty payload), the loop over its organizations is not
search_with_zippopotam_fallback(zip_code, keyword, geo, reg, reg2) ==
    LET orgs == Take(FetchResults(reg), KeywordCap)
        mq(o) == IF IsSubstring(Lower(geo.city), Lower(GetCity(o).s)) THEN 90
                 ELSE IF GetState(o) = geo.state_abbr THEN 50
                 ELSE 25
        raises(o) == GetCity(o).is_none \/ {"ein", "name"} \ o.keys # {}
        results == [i \in DOMAIN orgs |->
                      [ein |-> orgs[i].ein, name |-> orgs[i].name,
                       city |-> GetCity(orgs[i]).s, state |-> GetState(orgs[i]),
                       match_quality |-> mq(orgs[i])]]
    IN IF ~geo.found THEN search_keyword(keyword, reg2)
       ELSE IF \E i \in DOMAIN orgs : raises(orgs[i])
       THEN [route |-> "api_fallback", outcome |-> "raised",
             zip_code |-> zip_code, keyword |-> keyword]
       ELSE [route |-> "api_fallback", outcome |-> "ok",
             zip_code |-> zip_code, keyword |-> keyword,
             results |-> MatchQualityDesc(results)]

tiger_search(query, geo, reg, reg2) ==
    LET parts == Split(query)
    IN IF parts # <<>> /\ Len(parts[1]) = ZipLen /\ IsDigit(parts[1])
       THEN LET zip_code == parts[1]
                keyword == IF Len(parts) > 1 THEN Join(Tail(parts))
                           ELSE sNonprofit
                location == tiger_get_location_from_zip(zip_code)
            IN IF location.found
               THEN tiger_search_by_location(location, keyword, zip_code, reg)
                        @@ Lookups(TRUE, FALSE)
               ELSE search_with_zippopotam_fallback(zip_code, keyword, geo,
                                                    reg, reg2)
                        @@ Lookups(TRUE, TRUE)
       ELSE search_keyword(query, reg) @@ Lookups(FALSE, FALSE)

tiger_do_GET(query, geo, reg, reg2) ==
    IF query = <<>> THEN [status |-> 400]
    ELSE LET results == tiger_search(query, geo, reg, reg2)
         IN IF results.outcome = "raised"
            THEN [status |-> NoAnswer, body |-> results]
            ELSE [status |-> 200, body |-> results]

-----------------------------------------------------------------------------
(* census_geo_search.py *)

\* the rows of is_likely_same_county's metro_areas the model keeps
metro_areas ==
    [TX |-> <<[metro_city |-> sDallas,
               nearby_cities |-> <<sRichardson, sPlano, sIrving>>]>>,
     FL |-> <<[metro_city |-> sMiami,
               nearby_cities |-> <<sMiamiBeach>>]>>]

is_likely_same_county(org_city, search_city, state) ==
    LET state_metros == IF state \in DOMAIN metro_areas THEN metro_areas[state]
                        ELSE <<>>
    IN \E i \in DOMAIN state_metros :
          /\ \/ Lower(search_city) = Lower(state_metros[i].metro_city)
             \/ search_city \in Range(state_metros[i].nearby_cities)
          /\ \/ org_city \in Range(state_metros[i].nearby_cities)
             \/ Lower(org_city) = Lower(state_metros[i].metro_city)

\* the if / elif chain of census search_by_county: match_quality 100 same city
\* (substring test), 75 same county (the metro heuristic), 50 same state, 0 no
\* branch taken.  geo.county is "" for a county the census call did not give.
CensusMatchQuality(org, geo) ==
    IF geo.city # sEmpty /\ IsSubstring(Lower(geo.city), Lower(GetCity(org).s))
    THEN 100
    ELSE IF /\ geo.county # ""
            /\ geo.county # "Unknown"
            /\ is_likely_same_county(GetCity(org).s, geo.city, geo.state_abbr)
    THEN 75
    ELSE IF GetState(org) = geo.state_abbr THEN 50
    ELSE 0

CensusCapLocal == 10
CensusCapCounty == 5
CensusCapState == 5

CensusCombine(local_results, county_results, state_results) ==
    Take(local_results, CensusCapLocal) \o Take(county_results, CensusCapCounty)
        \o Take(state_results, CensusCapState)

census_search_by_county(geo, keyword, zip_code, reg) ==
    LET orgs == FetchResults(reg)
        mq(org) == CensusMatchQuality(org, geo)
        tier(q) == SelectSeq(orgs, LAMBDA o : mq(o) = q)
        data(l, q) == [i \in DOMAIN l |-> TigerOrgData(l[i], q)]
        local_results == ScoreDesc(data(tier(100), 100))
        county_results == ScoreDesc(data(tier(75), 75))
        state_results == ScoreDesc(data(tier(50), 50))
    IN IF \E i \in DOMAIN orgs : FinalOrgRaises(orgs[i], geo.city)
       THEN [route |-> "by_location", outcome |-> "raised",
             zip_code |-> zip_code, keyword |-> keyword]
       ELSE [route |-> "by_location", outcome |-> "ok",
             zip_code |-> zip_code, keyword |-> keyword,
             location |-> geo,
             exact_city |-> local_results,
             same_county |-> county_results,
             same_state |-> state_results,
             total |-> Len(orgs),
             results |-> CensusCombine(local_results, county_results,
                                       state_results),
             message |-> IF local_results # <<>> THEN "city"
                         ELSE IF county_results # <<>> THEN "county"
                         ELSE "none"]

\* census_search: geo is what get_county_from_zip gave (found FALSE for None)
census_search(query, geo, reg) ==
    LET parts == Split(query)
    IN IF parts # <<>> /\ Len(parts[1]) = ZipLen /\ IsDigit(parts[1])
       THEN LET zip_code == parts[1]
                keyword == IF Len(parts) > 1 THEN Join(Tail(parts))
                           ELSE sNonprofit
            IN IF geo.found
               THEN census_search_by_county(geo, keyword, zip_code, reg)
                        @@ Lookups(FALSE, TRUE)
               ELSE search_keyword(query, reg) @@ Lookups(FALSE, TRUE)
       ELSE search_keyword(query, reg) @@ Lookups(FALSE, FALSE)

census_do_GET(query, geo, reg) ==
    IF query = <<>> THEN [status |-> 400]
    ELSE LET results == census_search(query, geo, reg)
         IN IF results.outcome = "raised"
            THEN [status |-> NoAnswer, body |-> results]
            ELSE [status |-> 200, body |-> results]

-----------------------------------------------------------------------------
(* county_search.py *)

\* the rows of ZIP_TO_COUNTY the model keeps
ZIP_TO_COUNTY ==
    (z75201 :> [county |-> "Dallas County", state |-> "TX", city |-> sDallas]) @@
    (z33101 :> [county |-> "Miami-Dade County", state |-> "FL", city |-> sMiami])

\* the rows, and of each row the cities, of COUNTY_CITIES the model keeps
COUNTY_CITIES ==
    ("Dallas County" :> <<sDallas, sRichardson, sPlano, sIrving>>) @@
    ("Miami-Dade County" :> <<sMiami, sMiamiBeach>>)

\* the prefixes of search_by_county's state_map the model keeps
county_state_map ==
    (<<"7","5","0">> :> "TX") @@ (<<"7","5","2">> :> "TX") @@
    (<<"3","3","7">> :> "FL")

NameAsc(l) ==
    StableSort(l, [i \in DOMAIN l |->
                     Cardinality({l[j].name : j \in {k \in DOMAIN l :
                                     StrLess(l[k].name, l[i].name)}})])

CountyCapLocal == 20
CountyCapNearby == 10
CountyCapState == 30

\* search_with_state: the ZIP is not in ZIP_TO_COUNTY but its prefix names a state
search_with_state(keyword, state, zip_code, reg) ==
    LET orgs == Take(FetchResults(reg), CountyCapState)
    IN IF \/ ~RegOk(reg)
          \/ \E i \in DOMAIN orgs : {"ein", "name"} \ orgs[i].keys # {}
       THEN [route |-> "state", outcome |-> "ok", error |-> TRUE,
             results |-> <<>>]
       ELSE [route |-> "state", outcome |-> "ok", error |-> FALSE,
             zip_code |-> zip_code, keyword |-> keyword,
             results |-> [i \in DOMAIN orgs |->
                 [ein |-> orgs[i].ein, name |-> orgs[i].name,
                  city |-> GetCity(orgs[i]).s, state |-> GetState(orgs[i])]]]

\* the county test of search_by_county: some city of the county is, in lower
\* case, a substring of the organization's city
CountyIsInCounty(org_city, county_cities) ==
    \E i \in DOMAIN county_cities :
        IsSubstring(Lower(county_cities[i]), Lower(org_city))

county_search_by_county(zip_code, keyword, reg) ==
    IF zip_code \notin DOMAIN ZIP_TO_COUNTY
    THEN LET zip_prefix == Take(zip_code, 3)
         IN IF zip_prefix \in DOMAIN county_state_map
            THEN search_with_state(keyword, county_state_map[zip_prefix],
                                   zip_code, reg)
            ELSE [route |-> "unknown_zip", outcome |-> "ok", error |-> TRUE,
                  results |-> <<>>]
    ELSE
    LET county_info == ZIP_TO_COUNTY[zip_code]
        county == county_info.county
        state == county_info.state
        city == county_info.city
        county_cities == IF county \in DOMAIN COUNTY_CITIES
                         THEN COUNTY_CITIES[county] ELSE <<city>>
        orgs == FetchResults(reg)
        data(o) == [ein |-> o.ein, name |-> o.name, city |-> GetCity(o).s,
                    state |-> GetState(o)]
        all == [i \in DOMAIN orgs |-> data(orgs[i])]
        local(d) == CountyIsInCounty(d.city, county_cities)
        local_results ==
            NameAsc(SelectSeq(all, LAMBDA d : local(d)))
        nearby_results ==
            NameAsc(SelectSeq(all, LAMBDA d : ~local(d) /\ d.state = state))
        raises(o) == GetCity(o).is_none \/ {"ein", "name"} \ o.keys # {}
    IN IF ~RegOk(reg) \/ \E i \in DOMAIN orgs : raises(orgs[i])
       THEN [route |-> "by_location", outcome |-> "ok", error |-> TRUE,
             results |-> <<>>]
       ELSE [route |-> "by_location", outcome |-> "ok", error |-> FALSE,
             zip_code |-> zip_code, keyword |-> keyword,
             location |-> county_info,
             exact_city |-> local_results,
             same_county |-> <<>>,
             same_state |-> nearby_results,
             total |-> Len(orgs),
             results |-> Take(local_results, CountyCapLocal)
                            \o Take(nearby_results, CountyCapNearby)]

\* do_GET of /api/county-search: zip and q are separate query parameters
county_do_GET(zip_code, keyword, reg) ==
    IF zip_code = <<>> \/ keyword = <<>> THEN [status |-> 400]
    ELSE [status |-> 200,
          body |-> county_search_by_county(zip_code, keyword, reg)
                      @@ Lookups(TRUE, FALSE)]

-----------------------------------------------------------------------------
(* advanced_search.py *)

\* the rows of ZIP_TO_STATE and of get_state_from_zip's state_map the model keeps
ZIP_TO_STATE == (z75201 :> "TX") @@ (z33101 :> "FL")

advanced_state_map ==
    (<<"7","5","0">> :> "TX") @@ (<<"7","7","7">> :> "TX") @@
    (<<"3","3","1">> :> "FL")

\* get_state_from_zip: "" stands for None
get_state_from_zip(zip_code) ==
    IF zip_code \in DOMAIN ZIP_TO_STATE THEN ZIP_TO_STATE[zip_code]
    ELSE IF Take(zip_code, 3) \in DOMAIN advanced_state_map
    THEN advanced_state_map[Take(zip_code, 3)]
    ELSE ""

\* re.match(r'^\d{5}$', s): $ also matches before a newline that ends s
MatchesZip(s) ==
    \/ Len(s) = ZipLen /\ IsDigit(s)
    \/ /\ Len(s) = ZipLen + 1
       /\ IsDigit(Take(s, ZipLen))
       /\ s[ZipLen + 1] = "\n"

\* search_by_zip: reg answers the first registry call, reg2 the second one made
\* when a search without keyword is answered 500
advanced_search_by_zip(zip_code, keyword, reg, reg2) ==
    LET state == get_state_from_zip(zip_code)
        answer == IF reg.status = 500 /\ keyword = <<>> THEN reg2 ELSE reg
        organizations ==
            IF keyword # <<>>
            THEN SelectSeq(FetchResults(answer), LAMBDA o :
                    "name" \in o.keys /\ IsSubstring(Lower(keyword), Lower(o.name)))
            ELSE FetchResults(answer)
        orgs == Take(organizations, KeywordCap)
    IN IF state = ""
       THEN [route |-> "by_zip", outcome |-> "ok", zip_code |-> zip_code,
             keyword |-> keyword, static_lookup |-> TRUE,
             error |-> TRUE, results |-> <<>>]
       ELSE IF \/ reg.status = RegTimeout
               \/ answer.status # 200
               \/ \E i \in DOMAIN orgs : {"ein", "name"} \ orgs[i].keys # {}
       THEN [route |-> "by_zip", outcome |-> "ok", zip_code |-> zip_code,
             keyword |-> keyword, static_lookup |-> TRUE,
             error |-> TRUE, results |-> <<>>]
       ELSE [route |-> "by_zip", outcome |-> "ok", zip_code |-> zip_code,
             keyword |-> keyword, static_lookup |-> TRUE,
             error |-> FALSE, state |-> state,
             results |-> [i \in DOMAIN orgs |->
                 [ein |-> orgs[i].ein, name |-> orgs[i].name,
                  city |-> GetCity(orgs[i]).s, state |-> GetState(orgs[i]),
                  score |-> GetScore(orgs[i])]]]

advanced_search_by_keyword(keyword, reg) ==
    LET orgs == Take(FetchResults(reg), KeywordCap)
    IN IF \/ ~RegOk(reg)
          \/ \E i \in DOMAIN orgs : {"ein", "name"} \ orgs[i].keys # {}
       THEN [route |-> "keyword", outcome |-> "ok", keyword |-> keyword,
             static_lookup |-> FALSE, error |-> TRUE, results |-> <<>>]
       ELSE [route |-> "keyword", outcome |-> "ok", keyword |-> keyword,
             static_lookup |-> FALSE, error |-> FALSE,
             results |-> [i \in DOMAIN orgs |->
                 [ein |-> orgs[i].ein, name |-> orgs[i].name,
                  city |-> GetCity(orgs[i]).s, state |-> GetState(orgs[i]),
                  score |-> GetScore(orgs[i])]]]

\* do_GET of /api/search-advanced: q is the query, keyword_param the separate
\* 'keyword' parameter, read only when q is a bare ZIP code
advanced_do_GET(query, keyword_param, reg, reg2) ==
    IF MatchesZip(query)
    THEN [status |-> 200,
          body |-> advanced_search_by_zip(query, keyword_param, reg, reg2)]
    ELSE LET parts == Split(query)
         IN IF Len(parts) >= 2 /\ MatchesZip(parts[1])
            THEN [status |-> 200,
                  body |-> advanced_search_by_zip(parts[1], Join(Tail(parts)),
                                                  reg, reg2)]
            ELSE [status |-> 200, body |-> advanced_search_by_keyword(query, reg)]

-----------------------------------------------------------------------------
(* src/api/local_search.py *)

\* the rows of ZIP_TO_CITY the model keeps
ZIP_TO_CITY == (z75201 :> sDallas) @@ (z33101 :> sMiami) @@ (z33139 :> sMiamiBeach)

\* the rows, and of each row the cities, of NEARBY_CITIES the model keeps
NEARBY_CITIES ==
    (sDallas :> <<sDallas, sRichardson, sPlano, sIrving>>) @@
    (sMiami :> <<sMiami, sMiamiBeach>>)

LocalCapLocal == 10
LocalCapOther == 5

\* search_local: a ZIP that is not in ZIP_TO_CITY is answered at once; the
\* registry call and the loop over its organizations are inside one try
search_local(zip_code, keyword, reg) ==
    IF zip_code \notin DOMAIN ZIP_TO_CITY
    THEN [route |-> "unknown_zip", outcome |-> "ok", error |-> TRUE,
          results |-> <<>>]
    ELSE
    LET city == ZIP_TO_CITY[zip_code]
        nearby == IF city \in DOMAIN NEARBY_CITIES THEN NEARBY_CITIES[city]
                  ELSE <<city>>
        orgs == FetchResults(reg)
        is_local(o) == \E i \in DOMAIN nearby :
                          IsSubstring(Lower(nearby[i]), Lower(GetCity(o).s))
        data(o) == [ein |-> o.ein, name |-> o.name, city |-> GetCity(o).s,
                    state |-> GetState(o), is_local |-> is_local(o)]
        all == [i \in DOMAIN orgs |-> data(orgs[i])]
        local_results == SelectSeq(all, LAMBDA d : d.is_local)
        other_results == SelectSeq(all, LAMBDA d : ~d.is_local)
        raises(o) == GetCity(o).is_none \/ {"ein", "name"} \ o.keys # {}
    IN IF ~RegOk(reg) \/ \E i \in DOMAIN orgs : raises(orgs[i])
       THEN [route |-> "by_location", outcome |-> "ok", error |-> TRUE,
             results |-> <<>>]
       ELSE [route |-> "by_location", outcome |-> "ok", error |-> FALSE,
             zip_code |-> zip_code, keyword |-> keyword, city |-> city,
             local_results |-> Take(local_results, LocalCapLocal),
             other_results |-> IF local_results = <<>>
                               THEN Take(other_results, LocalCapOther)
                               ELSE <<>>]

\* do_GET of /api/local-search: zip and q are separate query parameters; the
\* static table is the only lookup this handler has
local_do_GET(zip_code, keyword, reg) ==
    IF zip_code = <<>> \/ keyword = <<>> THEN [status |-> 400]
    ELSE [status |-> 200,
          body |-> search_local(zip_code, keyword, reg) @@ Lookups(TRUE, FALSE)]

-----------------------------------------------------------------------------
(* src/api/index.py *)

-----------------------------------------------------------------------------
(* smart_local_search.py *)

\* the rows of CITY_TO_COUNTY the model keeps, with the first nearby cities
CITY_TO_COUNTY ==
    (sDallas :> [county |-> "Dallas County", state |-> "TX",
                 nearby |-> <<sRichardson, sPlano, sIrving>>]) @@
    (sMiami :> [county |-> "Miami-Dade County", state |-> "FL",
                nearby |-> <<sMiamiBeach>>])

SmartCapLocal == 15
SmartCapNearby == 5

\* search_local of smart_local_search.py: city and state are those of the
\* geocoder's place (the state by its full name).  A candidate is local when
\* a nearby city is part of its city or its city is part of a nearby city.
smart_search_local(city, state, keyword, zip_code, reg) ==
    LET county_info == IF city \in DOMAIN CITY_TO_COUNTY
                       THEN CITY_TO_COUNTY[city]
                       ELSE [county |-> "Unknown", state |-> "", nearby |-> <<>>]
        nearby_cities == <<city>> \o county_info.nearby
        orgs == FetchResults(reg)
        is_local(org_city) ==
            \E i \in DOMAIN nearby_cities :
                \/ IsSubstring(Lower(nearby_cities[i]), Lower(org_city))
                \/ IsSubstring(Lower(org_city), Lower(nearby_cities[i]))
        data(o) == [ein |-> o.ein, name |-> o.name, city |-> GetCity(o).s,
                    state |-> GetState(o)]
        all == [i \in DOMAIN orgs |-> data(orgs[i])]
        local_results == SelectSeq(all, LAMBDA d : is_local(d.city))
        nearby_results ==
            SelectSeq(all, LAMBDA d : ~is_local(d.city) /\ d.state = state)
        raises(o) == GetCity(o).is_none \/ {"ein", "name"} \ o.keys # {}
    IN IF \E i \in DOMAIN orgs : raises(orgs[i])
       THEN [route |-> "by_location", outcome |-> "raised",
             zip_code |-> zip_code, keyword |-> keyword]
       ELSE [route |-> "by_location", outcome |-> "ok",
             zip_code |-> zip_code, keyword |-> keyword,
             city |-> city, county |-> county_info.county, state |-> state,
             local_results |-> local_results,
             nearby_results |-> nearby_results,
             total |-> Len(orgs),
             results |-> Take(local_results, SmartCapLocal)
                            \o Take(nearby_results, SmartCapNearby)]

\* smart_search and do_GET of /api/smart-search: geo is what fetch_zip gave
\* (found FALSE for None); the keyword search is the one of final_search.py
smart_do_GET(query, geo, reg) ==
    IF query = <<>> THEN [status |-> 400]
    ELSE LET parts == Split(query)
             results ==
                 IF parts # <<>> /\ Len(parts[1]) = ZipLen /\ IsDigit(parts[1])
                      /\ geo.found
                 THEN smart_search_local(geo.city, geo.state,
                          IF Len(parts) > 1 THEN Join(Tail(parts))
                          ELSE sNonprofit, parts[1], reg)
                 ELSE search_keyword(query, reg)
         IN IF results.outcome = "raised"
            THEN [status |-> NoAnswer, body |-> results]
            ELSE [status |-> 200, body |-> results]

CACHE_DURATION == 3600

\* get_cached_or_fetch with a comparison that still serves an entry of age
\* CACHE_DURATION
get_cached_or_fetch_ServesAtExpiry(c, t, cache_key, fetched, took) ==
    IF cache_key \in DOMAIN c /\ t - c[cache_key].timestamp <= CACHE_DURATION
    THEN [data |-> c[cache_key].data, called |-> FALSE, cache |-> c, now |-> t]
    ELSE [data |-> fetched, called |-> TRUE, now |-> t + took,
          cache |-> (cache_key :> [data |-> fetched, timestamp |-> t + took])
                        @@ c]

\* a result of a fetch function that stands for a failure: None of fetch_zip,
\* the empty payload of fetch_results
FetchFailed(data) ==
    IF "found" \in DOMAIN data THEN ~data.found
    ELSE data.organizations = <<>>

\* get_cached_or_fetch that does not store the result of a failed fetch
get_cached_or_fetch_SkipsFailures(c, t, cache_key, fetched, took) ==
    IF cache_key \in DOMAIN c /\ t - c[cache_key].timestamp < CACHE_DURATION
    THEN [data |-> c[cache_key].data, called |-> FALSE, cache |-> c, now |-> t]
    ELSE [data |-> fetched, called |-> TRUE, now |-> t + took,
          cache |-> IF FetchFailed(fetched) THEN c
                    ELSE (cache_key :> [data |-> fetched, timestamp |-> t + took])
                            @@ c]

\* get_cached_or_fetch over the cache c at time t: fetched is what fetch_func
\* would return and took the seconds it would take.  An entry younger than
\* CACHE_DURATION is returned and fetch_func is not called; otherwise it is
\* called once and its result is stored with the time after the call.
get_cached_or_fetch(c, t, cache_key, fetched, took) ==
    IF cache_key \in DOMAIN c /\ t - c[cache_key].timestamp < CACHE_DURATION
    THEN [data |-> c[cache_key].data, called |-> FALSE, cache |-> c, now |-> t]
    ELSE [data |-> fetched, called |-> TRUE, now |-> t + took,
          cache |-> (cache_key :> [data |-> fetched, timestamp |-> t + took])
                        @@ c]

\* fetch of search_nonprofits: the first KeywordCap organizations, or [] when
\* the call fails, the status is not 2xx or an organization has no 'ein' or
\* 'name'
index_fetch(reg) ==
    LET orgs == Take(FetchResults(reg), KeywordCap)
    IN IF \/ ~RegOk(reg)
          \/ \E i \in DOMAIN orgs : {"ein", "name"} \ orgs[i].keys # {}
       THEN <<>>
       ELSE [i \in DOMAIN orgs |->
                [ein |-> orgs[i].ein, name |-> orgs[i].name,
                 city |-> GetCity(orgs[i]), state |-> GetState(orgs[i]),
                 score |-> GetScore(orgs[i])]]

index_cache_key(query, state) == [kind |-> "search", query |-> query,
                                  state |-> state]

\* search_nonprofits
index_search_nonprofits(c, t, query, state, reg, took) ==
    get_cached_or_fetch(c, t, index_cache_key(query, state), index_fetch(reg),
                        took)

\* do_GET of /api/search: 400 without a query, else 200 with the bare list of
\* results as payload (a list has no 'error' field)
index_do_GET(c, t, query, state, reg, took) ==
    IF query = <<>> THEN [status |-> 400, called |-> FALSE, cache |-> c, now |-> t]
    ELSE LET got == index_search_nonprofits(c, t, query, state, reg, took)
         IN [status |-> 200, called |-> got.called, cache |-> got.cache,
             now |-> got.now,
             body |-> [route |-> "index", outcome |-> "ok", error |-> FALSE,
                       results |-> got.data]]

-----------------------------------------------------------------------------
(* src/models/nonprofit.py and src/core/ranking_engine.py *)

\* Sub-scores are in thousandths: Unit stands for 1.0.  Weights are in percent,
\* so an overall score is in units of 1 / (100 * Unit).
Unit == 10 * 100

FinancialData(year, total_revenue, total_expenses, total_assets, total_liabilities, program_expenses, administrative_expenses, fundraising_expenses) ==
    [year |-> year, total_revenue |-> total_revenue,
     total_expenses |-> total_expenses, total_assets |-> total_assets,
     total_liabilities |-> total_liabilities,
     program_expenses |-> program_expenses,
     administrative_expenses |-> administrative_expenses,
     fundraising_expenses |-> fundraising_expenses]

\* program_expense_ratio without the test of total_expenses: the division by
\* zero of an organization without expenses gives no value (None)
program_expense_ratio_Unguarded(f) ==
    IF f.total_expenses = 0 THEN None
    ELSE (f.program_expenses * Unit) \div f.total_expenses

\* FinancialData.program_expense_ratio (the histories of the model keep the
\* division exact)
program_expense_ratio(f) ==
    IF f.total_expenses > 0
    THEN (f.program_expenses * Unit) \div f.total_expenses
    ELSE 0

\* FinancialData.overhead_ratio
overhead_ratio(f) ==
    IF f.total_expenses > 0
    THEN ((f.administrative_expenses + f.fundraising_expenses) * Unit)
            \div f.total_expenses
    ELSE 0

\* Nonprofit.get_latest_financials: max() gives the first entry of the greatest
\* year; a record without a year stands for None
get_latest_financials(np) ==
    IF np.financial_history # <<>>
    THEN LET h == np.financial_history
             i == CHOOSE k \in DOMAIN h :
                    /\ \A j \in DOMAIN h : h[j].year <= h[k].year
                    /\ \A j \in 1..(k - 1) : h[j].year < h[k].year
         IN h[i]
    ELSE [year |-> None]

\* calculate_stability_score giving 0 for a short history
calculate_stability_score_ZeroWhenShort(np) ==
    IF Len(np.financial_history) < 2 THEN 0
    ELSE LET latest == get_latest_financials(np)
             revenue == IF latest.total_revenue > 0 THEN 300 ELSE 0
             ratio == IF latest.total_liabilities > 0
                      THEN IF latest.total_assets > 2 * latest.total_liabilities
                           THEN 300
                           ELSE IF latest.total_assets > latest.total_liabilities
                           THEN 200 ELSE 0
                      ELSE 0
             program == (program_expense_ratio(latest) * 4) \div 10
         IN Min(revenue + ratio + program, Unit)

\* calculate_stability_score rating the assets of an organization without
\* liabilities as a ratio above 2
calculate_stability_score_NoLiabilitiesBonus(np) ==
    IF Len(np.financial_history) < 2 THEN Unit \div 2
    ELSE LET latest == get_latest_financials(np)
             revenue == IF latest.total_revenue > 0 THEN 300 ELSE 0
             ratio == IF latest.total_assets > 2 * latest.total_liabilities
                      THEN 300
                      ELSE IF latest.total_assets > latest.total_liabilities
                      THEN 200 ELSE 0
             program == (program_expense_ratio(latest) * 4) \div 10
         IN Min(revenue + ratio + program, Unit)

\* Nonprofit.calculate_stability_score
calculate_stability_score(np) ==
    IF Len(np.financial_history) < 2 THEN Unit \div 2
    ELSE LET latest == get_latest_financials(np)
             revenue == IF latest.total_revenue > 0 THEN 300 ELSE 0
             ratio == IF latest.total_liabilities > 0
                      THEN IF latest.total_assets > 2 * latest.total_liabilities
                           THEN 300
                           ELSE IF latest.total_assets > latest.total_liabilities
                           THEN 200 ELSE 0
                      ELSE 0
             program == (program_expense_ratio(latest) * 4) \div 10
         IN Min(revenue + ratio + program, Unit)

\* NonprofitRankingEngine._calculate_capacity_score
calculate_capacity_score(np) ==
    LET latest == get_latest_financials(np)
        h == np.financial_history
        size == IF latest.total_revenue > 5000000 THEN 200
                ELSE IF latest.total_revenue > 1000000 THEN 150
                ELSE IF latest.total_revenue > 100000 THEN 100
                ELSE 0
        efficiency == IF program_expense_ratio(latest) > 800 THEN 200
                      ELSE IF program_expense_ratio(latest) > 700 THEN 100
                      ELSE 0
        growth == IF /\ Len(h) >= 3
                     /\ \A i \in (Len(h) - 2)..(Len(h) - 1) :
                           h[i].total_revenue <= h[i + 1].total_revenue
                  THEN 100 ELSE 0
    IN IF h = <<>> THEN 500
       ELSE Min(Unit, 500 + size + efficiency + growth)

RoiNormalizer == 100000

\* the ROI term without its clamp
RoiScore_Unclamped(estimated_value) == (estimated_value * Unit) \div RoiNormalizer

\* min(1.0, estimated_value / 100000)
RoiScore(estimated_value) ==
    Min(Unit, (estimated_value * Unit) \div RoiNormalizer)

\* NonprofitRankingEngine._calculate_overall_score
calculate_overall_score(np, crit) ==
    LET mission == IF np.mission_alignment # None THEN np.mission_alignment
                   ELSE 0
        roi == IF np.partnership_roi # None THEN RoiScore(np.partnership_roi)
               ELSE 0
        stability == calculate_stability_score(np)
        capacity == calculate_capacity_score(np)
        data_quality == np.data_quality_score
    IN mission * crit.mission_weight
        + roi * crit.roi_weight
        + stability * crit.stability_weight
        + capacity * crit.capacity_weight
        + data_quality * crit.data_quality_weight

\* the except branch leaving the organization unscored
ScoreNonprofit_NoScoreOnError(np, crit) ==
    IF np.raises = "none"
    THEN LET analysed == [np EXCEPT !.mission_alignment = np.mission_result,
                                    !.partnership_roi = np.roi_result]
         IN [analysed EXCEPT !.overall_score =
                                 calculate_overall_score(analysed, crit)]
    ELSE np

\* The body of the loop of rank_nonprofits for one organization.  mission_result
\* and roi_result are what analyze_alignment and calculate_roi return for it;
\* raises names the step that raises for it: "mission" (analyze_alignment),
\* "roi" (calculate_roi), "score" (_calculate_overall_score) or "none".
ScoreNonprofit(np, crit) ==
    IF np.raises = "mission" THEN [np EXCEPT !.overall_score = 0]
    ELSE IF np.raises = "roi"
    THEN [np EXCEPT !.mission_alignment = np.mission_result,
                    !.overall_score = 0]
    ELSE LET analysed == [np EXCEPT !.mission_alignment = np.mission_result,
                                    !.partnership_roi = np.roi_result]
         IN IF np.raises = "score" THEN [analysed EXCEPT !.overall_score = 0]
            ELSE [analysed EXCEPT !.overall_score =
                                      calculate_overall_score(analysed, crit)]

\* an ascending sort read backwards: equal scores end in reverse order
OverallDesc_Unstable(l) ==
    LET asc == StableSort(l, [i \in DOMAIN l |-> l[i].overall_score])
    IN [i \in DOMAIN l |-> asc[Len(l) + 1 - i]]

\* sort(key=overall_score, reverse=True)
OverallDesc(l) ==
    StableSortReverse(l, [i \in DOMAIN l |-> l[i].overall_score])

\* enumerate() from 0
AssignRankings_FromZero(l) == [i \in DOMAIN l |-> [l[i] EXCEPT !.ranking = i - 1]]

\* for rank, nonprofit in enumerate(scored_nonprofits, 1)
AssignRankings(l) == [i \in DOMAIN l |-> [l[i] EXCEPT !.ranking = i]]

\* NonprofitRankingEngine.rank_nonprofits
rank_nonprofits(nonprofits, crit) ==
    IF nonprofits = <<>> THEN <<>>
    ELSE LET scored_nonprofits ==
                 [i \in DOMAIN nonprofits |-> ScoreNonprofit(nonprofits[i], crit)]
         IN AssignRankings(OverallDesc(scored_nonprofits))

-----------------------------------------------------------------------------
(* src/analyzers/mission_alignment.py *)

\* the label _generate_explanation opens with for a score
AlignmentLabel(score) ==
    IF score > (8 * Unit) \div 10 THEN "Strong"
    ELSE IF score > (6 * Unit) \div 10 THEN "Good"
    ELSE IF score > (4 * Unit) \div 10 THEN "Moderate"
    ELSE "Limited"

\* _generate_explanation: the score it words is the one of the
\* mission_alignment stored on the organization, 0 when there is none; the
\* score being computed is not among its arguments
generate_explanation(np, overall_score) ==
    LET stored == IF np.mission_alignment # None THEN np.mission_alignment
                  ELSE 0
    IN [label |-> AlignmentLabel(stored), percent |-> stored]

\* analyze_alignment: overall_score is the weighted sum of the five sub-scores
\* (np.mission_result), the score of the result is capped at 1
analyze_alignment(np) ==
    LET overall_score == np.mission_result
    IN [score |-> Min(Unit, overall_score),
        explanation |-> generate_explanation(np, overall_score)]

-----------------------------------------------------------------------------
(* src/api/main.py *)

\* what get_nonprofit_details gave for the EINs that resolved
Resolved(details) == SelectSeq(details, LAMBDA d : d.found)

RankRow(np) ==
    [ein |-> np.ein, rank |-> np.ranking, overall_score |-> np.overall_score,
     mission_alignment |-> np.mission_alignment,
     roi_potential |-> np.partnership_roi]

\* POST /rank with the engine's criteria already replaced when the request
\* carried some: details holds, per EIN, what get_nonprofit_details gave.  The
\* 404 raised for an empty list is caught by the handler's own except clause
\* and leaves as a 500.
rank_endpoint(details, crit) ==
    LET nonprofits == Resolved(details)
        ranked_nonprofits == rank_nonprofits(nonprofits, crit)
    IN IF nonprofits = <<>> THEN [status |-> 500, detail |-> 404]
       ELSE [status |-> 200, nonprofits |-> nonprofits,
             ranked |-> ranked_nonprofits,
             body |-> [i \in DOMAIN ranked_nonprofits |->
                          RankRow(ranked_nonprofits[i])]]

\* POST /search: any_result says whether search_by_zip found something,
\* details holds what get_nonprofit_details gave for the first max_results of
\* them, min_revenue is 0 when the request has none
search_endpoint(any_result, details, min_revenue, crit) ==
    LET kept(d) == ~(/\ min_revenue # 0
                     /\ d.financial_history # <<>>
                     /\ get_latest_financials(d).total_revenue < min_revenue)
        nonprofits == SelectSeq(Resolved(details), kept)
        ranked_nonprofits == rank_nonprofits(nonprofits, crit)
    IN IF ~any_result THEN [status |-> 500, detail |-> 404]
       ELSE [status |-> 200, nonprofits |-> nonprofits,
             ranked |-> ranked_nonprofits,
             background |-> ranked_nonprofits, enriched |-> 0,
             body |-> [i \in DOMAIN ranked_nonprofits |->
                          RankRow(ranked_nonprofits[i])]]

\* calculate_data_quality, in units of 1/Unit: the weighted presence of the
\* fields, the lists scaled by their length
calculate_data_quality(np) ==
    LET part(weight, n, full) == (weight * Unit * Min(n, full)) \div (100 * full)
        flag(weight, present) == IF present THEN (weight * Unit) \div 100 ELSE 0
    IN Min(Unit, flag(20, np.mission_statement)
                    + part(25, Len(np.financial_history), 3)
                    + part(15, np.programs, 5)
                    + flag(10, np.website)
                    + part(10, np.social_media, 3)
                    + part(10, np.leadership, 5)
                    + flag(10, np.street))

\* one pass of the loop of enrich_nonprofit_data that also scores the
\* organization again
enrich_nonprofit_Rescoring(np, accounts, crit) ==
    IF accounts = None THEN np
    ELSE LET with_social == IF accounts > 0
                            THEN [np EXCEPT !.social_media = accounts]
                            ELSE np
             enriched == [with_social EXCEPT
                             !.data_quality_score =
                                 calculate_data_quality(with_social)]
         IN [enriched EXCEPT
                !.overall_score = calculate_overall_score(enriched, crit)]

\* one pass of the loop of enrich_nonprofit_data: accounts is the number of
\* social accounts found, None when the collectors raise (the except clause
\* logs and goes on).  The website is scraped only when the organization has
\* one.
enrich_nonprofit(np, accounts, crit) ==
    IF accounts = None THEN np
    ELSE LET with_social == IF accounts > 0
                            THEN [np EXCEPT !.social_media = accounts]
                            ELSE np
         IN [with_social EXCEPT
                !.data_quality_score = calculate_data_quality(with_social)]

\* GET /nonprofit/{ein}: the 404 is passed on by `except HTTPException: raise`;
\* the analysis is made outside the engine's try, so what raises there leaves
\* as a 500
nonprofit_endpoint(detail, crit) ==
    IF ~detail.found THEN [status |-> 404]
    ELSE IF detail.raises # "none" THEN [status |-> 500, detail |-> 0]
    ELSE LET analysed == [detail EXCEPT
                             !.mission_alignment = detail.mission_result,
                             !.partnership_roi = detail.roi_result]
             scored == [analysed EXCEPT
                           !.overall_score =
                               calculate_overall_score(analysed, crit),
                           !.ranking = 1]
         IN [status |-> 200, nonprofits |-> <<detail>>, ranked |-> <<scored>>,
             body |-> <<RankRow(scored)>>]

\* POST /analyze/{ein}: the 404 is raised inside the try and caught by
\* `except Exception`, which answers 500
analyze_endpoint(detail) ==
    IF ~detail.found THEN [status |-> 500, detail |-> 404]
    ELSE [status |-> 200, body |-> <<>>, started |-> TRUE]

\* NonprofitRankingEngine.compare_nonprofits: the difference is divided by the
\* overall score of the lower one; raised says the division was by zero
compare_nonprofits(nonprofit1, nonprofit2) ==
    LET first_higher == nonprofit1.overall_score > nonprofit2.overall_score
        divisor == IF first_higher THEN nonprofit2.overall_score
                   ELSE nonprofit1.overall_score
    IN [raised |-> divisor = 0,
        recommended |-> IF first_higher THEN nonprofit1.ein ELSE nonprofit2.ein,
        rows |-> <<RankRow(nonprofit1), RankRow(nonprofit2)>>]

\* GET /compare: the 404 for an EIN that does not resolve is caught by
\* `except Exception` and leaves as a 500, as does a division by zero
compare_endpoint(detail1, detail2, crit) ==
    IF ~detail1.found \/ ~detail2.found THEN [status |-> 500, detail |-> 404]
    ELSE LET nonprofits == rank_nonprofits(<<detail1, detail2>>, crit)
             comparison == compare_nonprofits(nonprofits[1], nonprofits[2])
         IN IF comparison.raised THEN [status |-> 500, detail |-> 0]
            ELSE [status |-> 200, nonprofits |-> <<detail1, detail2>>,
                  ranked |-> nonprofits, body |-> comparison.rows,
                  recommended |-> comparison.recommended]

-----------------------------------------------------------------------------
(* External calls *)

\* a call site: the service called and the timeout argument of the call, None
\* when the call is made without one (requests then waits without limit)
CallSite(service, timeout) == [service |-> service, timeout |-> timeout]

\* final_search.py: the ZIP geocoder, then the registry search
FinalSearchCalls == <<CallSite("zip_geocoder", 5), CallSite("registry_search", 10)>>

\* census_geo_search.py: the ZIP geocoder, the census geocoder, the registry
CensusSearchCalls ==
    <<CallSite("zip_geocoder", 5), CallSite("census_geocoder", 10),
      CallSite("registry_search", 10)>>

\* index.py, /api/details
IndexDetailsCalls == <<CallSite("registry_details", 10)>>

\* POST /search of main.py: IRS990Collector.search_by_zip, then
\* get_nonprofit_details for a result, both through session.get(url)
ServiceSearchCalls ==
    <<CallSite("registry_search", None), CallSite("registry_details", None)>>

\* POST /rank of main.py: get_nonprofit_details
ServiceRankCalls == <<CallSite("registry_details", None)>>

Handlers ==
    [final |-> FinalSearchCalls, census |-> CensusSearchCalls,
     details |-> IndexDetailsCalls, search |-> ServiceSearchCalls,
     rank |-> ServiceRankCalls]

\* POST /search stops after a search without results; every other call of
\* the handlers above is followed by the next one whatever it gave
StopsWithoutData(endpoint, service) ==
    endpoint = "search" /\ service = "registry_search"

\* what the called service does: it answers with data, it answers with an
\* error or a status other than 200, it never answers
ServerBehaviours == {"answers", "fails", "silent"}

-----------------------------------------------------------------------------
(* Inputs of the search endpoints *)

sA == <<"A">>
sB == <<"B">>
sa == <<"a">>
sb == <<"b">>

AllKeys == {"ein", "name", "city", "state", "score"}

\* the organizations a registry payload is drawn from (the ein is given by the
\* place in the payload)
OrgPool == <<
    Org(0, sB, sDALLAS, "TX", 1),
    Org(0, sA, sDallas, "TX", 2),
    Org(0, sA, sIrving, "TX", 2),
    Org(0, sB, sIRVING, "TX", 1),
    Org(0, sa, sPlano, "TX", 2),
    Org(0, sA, sAustin, "TX", 1),
    Org(0, sA, sMiami, "FL", 2),
    Org(0, sb, sMiamiBeach, "FL", 1),
    Org(0, sB, sDallas, "GA", 1),
    Org(0, sA, sEmpty, "TX", 1),
    [Org(0, sA, sDallas, "TX", 1) EXCEPT !.keys = AllKeys \ {"ein"}],
    [Org(0, sA, sDallas, "TX", 1) EXCEPT !.city_null = TRUE] >>

\* the organizations a long run of a payload repeats
BulkPool == <<
    Org(0, sA, sDALLAS, "TX", 0),
    Org(0, sA, sIrving, "TX", 0),
    Org(0, sA, sAustin, "TX", 0) >>

\* m copies of org with scores 2, 1, 2, 1, ...
Bulk(org, m) == [i \in 1..m |-> [org EXCEPT !.score = 1 + (i % 2)]]

WithEin(l) == [i \in DOMAIN l |-> [l[i] EXCEPT !.ein = i]]

Reg200(l) == [status |-> 200, organizations |-> WithEin(l)]

RegFailures == {[status |-> 500, organizations |-> <<>>],
                [status |-> RegTimeout, organizations |-> <<>>]}

FreeLists(n) ==
    UNION {{[i \in 1..k |-> OrgPool[f[i]]] : f \in [1..k -> DOMAIN OrgPool]}
           : k \in 0..n}

TierRegs ==
    {Reg200(l) : l \in FreeLists(MaxFree)}
    \cup {Reg200(l \o Bulk(BulkPool[b], m)) :
            l \in FreeLists(1), b \in DOMAIN BulkPool, m \in 3..MaxBulk}
    \cup {Reg200(l \o Bulk(BulkPool[1], m1) \o Bulk(BulkPool[2], m2)
                    \o Bulk(BulkPool[3], m3)) :
            l \in FreeLists(1), m1 \in {MaxBulk - 1, MaxBulk}, m2 \in {MaxBulk - 3, MaxBulk - 2},
            m3 \in {1, MaxBulk - 5}}
    \cup RegFailures

GeoNone == [found |-> FALSE]

ZipGeos == {GeoNone,
            [found |-> TRUE, city |-> sDallas, state |-> "Texas",
             state_abbr |-> "TX"]}

CensusGeos ==
    {GeoNone,
     [found |-> TRUE, city |-> sDallas, state |-> "Texas", state_abbr |-> "TX",
      county |-> "Dallas County"],
     [found |-> TRUE, city |-> sDallas, state |-> "Texas", state_abbr |-> "TX",
      county |-> ""],
     [found |-> TRUE, city |-> sMiami, state |-> "Florida", state_abbr |-> "FL",
      county |-> "Miami-Dade County"]}

TierQueries == {z75201 \o <<" ">> \o sa, z75038 \o <<" ">> \o sa,
                z33101 \o <<" ">> \o sa}

CountyZips == {z75201, z33101, z75038}

\* what the ZIP geocoder can answer: a place list with status 200, an empty
\* place list, another status, an exception of the call, a timeout
GeoPlace == [city |-> sDallas, state |-> "Texas", state_abbr |-> "TX"]

GeoAnswers == {[kind |-> "ok", places |-> <<GeoPlace>>],
               [kind |-> "ok", places |-> <<>>],
               [kind |-> "status", places |-> <<>>],
               [kind |-> "exception", places |-> <<>>],
               [kind |-> "timeout", places |-> <<>>]}

\* ZIP codes of the resolving specification: in every static table, in none
\* and under no known prefix, in none but under a known three-digit prefix
z75299 == <<"7","5","2","9","9">>

ResolveZips == {z75201, <<"7","7","7","7","7">>, z75299}

ResolveRegs == {Reg200(l) : l \in FreeLists(1)} \cup RegFailures

\* inputs of /api/search of index.py: queries, states, registry answers and
\* the seconds a registry call takes (its timeout is 10)
IndexQueries == {sEmpty, sa}

IndexStates == {"", "TX"}

IndexRegs == {Reg200(<<>>), Reg200(<<OrgPool[2]>>), Reg200(<<OrgPool[11]>>)}
                \cup RegFailures

FetchSeconds == {0, 10}

\* what the clock advances by between requests: just under the cache duration
\* and exactly the cache duration
ClockSteps == {CACHE_DURATION - 1, CACHE_DURATION}

\* inputs of the upstream-failure specification: a query without ZIP code, one
\* whose ZIP code is in the static tables, one whose ZIP code is not
UpstreamQueries == {sa, z75201 \o <<" ">> \o sa, z75299 \o <<" ">> \o sa}

\* a JSON null in the 'state' field: equal to no state code
NullState == "null"

\* a well-formed organization and organizations lacking one field
UpstreamPool == <<
    Org(0, sA, sDallas, "TX", 1),
    [Org(0, sA, sDallas, "TX", 1) EXCEPT !.keys = AllKeys \ {"ein"}],
    [Org(0, sA, sDallas, "TX", 1) EXCEPT !.keys = AllKeys \ {"name"}],
    [Org(0, sA, sDallas, "TX", 1) EXCEPT !.city_null = TRUE],
    Org(0, sA, sDallas, NullState, 1) >>

UpstreamRegs ==
    {Reg200([i \in 1..k |-> UpstreamPool[f[i]]]) :
        f \in [1..2 -> DOMAIN UpstreamPool], k \in 0..2} \cup RegFailures

UpstreamGeos == {[kind |-> "ok", places |-> <<GeoPlace>>],
                 [kind |-> "timeout", places |-> <<>>]}

\* the tokens and separators the queries of the parsing specification are
\* made of
s77777 == <<"7","7","7","7","7">>
s7520 == <<"7","5","2","0">>
s752011 == <<"7","5","2","0","1","1">>
s7520a == <<"7","5","2","0","a">>

ParseTokens == {z75201, s77777, s7520, s752011, s7520a, sa}
Separators == {<<" ">>, <<" ", " ">>}
Leads == {<<>>, <<" ">>}
Trails == {<<>>, <<" ">>, <<"\n">>}

RECURSIVE TokenStrings(_)
TokenStrings(n) ==
    IF n = 1 THEN ParseTokens
    ELSE {t \o sp \o rest :
            t \in ParseTokens, sp \in Separators, rest \in TokenStrings(n - 1)}

ParseQueries ==
    {<<>>, <<" ">>}
    \cup {l \o q \o t :
            l \in Leads, t \in Trails,
            q \in UNION {TokenStrings(n) : n \in 1..MaxTokens}}

ParseRegs == {Reg200(<<OrgPool[2], OrgPool[3]>>), [status |-> 500, organizations |-> <<>>]}

KeywordParams == {<<>>, sa}

-----------------------------------------------------------------------------
(* Inputs of the ranking endpoints *)

\* financial histories: none, one year, two years, three growing years, and two
\* years ending in an empty filing
History0 == <<>>
History1 == <<FinancialData(2022, 200000, 100000, 300000, 100000, 90000, 10000, 0)>>
History2 == <<FinancialData(2021, 1500000, 1000000, 500000, 400000, 700000, 300000, 0),
              FinancialData(2022, 2000000, 1000000, 500000, 400000, 750000, 250000, 0)>>
History3 == <<FinancialData(2020, 4000000, 2000000, 8000000, 1000000, 1500000, 500000, 0),
              FinancialData(2021, 5000000, 2000000, 8000000, 1000000, 1500000, 500000, 0),
              FinancialData(2022, 6000000, 2000000, 9000000, 1000000, 2000000, 0, 0)>>
History4 == <<FinancialData(2021, 300000, 200000, 100000, 0, 100000, 100000, 0),
              FinancialData(2022, 0, 0, 0, 0, 0, 0, 0)>>

Histories == {History0, History1, History2, History3, History4}

\* a Nonprofit that has not been ranked yet: no analysis results.  Of the
\* fields calculate_data_quality looks at, get_nonprofit_details fills the
\* mission statement, the address and the financial history; programs,
\* social_media and leadership are kept as their lengths.
Nonprofit(mission_result, roi_result, raises, financial_history, data_quality_score) ==
    [found |-> TRUE, ein |-> 0,
     mission_result |-> mission_result, roi_result |-> roi_result,
     raises |-> raises, financial_history |-> financial_history,
     data_quality_score |-> data_quality_score,
     mission_statement |-> TRUE, street |-> TRUE, website |-> FALSE,
     programs |-> 0, social_media |-> 0, leadership |-> 0,
     mission_alignment |-> None, partnership_roi |-> None,
     overall_score |-> None, ranking |-> None]

\* get_nonprofit_details returned None
NotFound == [found |-> FALSE]

Raises == {"none", "mission", "roi", "score"}

NonprofitPool ==
    {Nonprofit(m, r, x, h, q) :
        m \in {0, Unit \div 2, Unit}, r \in {0, 50000, 1000000},
        x \in Raises, h \in Histories, q \in {0, Unit}}

BatchPool ==
    {Nonprofit(Unit, 1000000, "none", History3, Unit),
     Nonprofit(Unit \div 2, 50000, "none", History1, 0),
     Nonprofit(Unit \div 2, 50000, "score", History1, 0),
     Nonprofit(0, 0, "none", History4, 0),
     Nonprofit(Unit, 50000, "mission", History2, Unit)}

\* get_nonprofit_details leaves data_quality_score at its default
AsCollected(np) == [np EXCEPT !.data_quality_score = 0]

\* the EIN of a record is its position in the request
NumberEins(l) ==
    [i \in DOMAIN l |-> IF l[i].found THEN [l[i] EXCEPT !.ein = i] ELSE l[i]]

Batches(pool, n) ==
    UNION {[1..k -> pool] : k \in 0..n}

\* what get_nonprofit_details gives for the EINs of a request
DetailsBatches ==
    {NumberEins(l) :
        l \in Batches({AsCollected(np) : np \in BatchPool} \cup {NotFound}, MaxBatch)
              \cup {<<AsCollected(np)>> : np \in NonprofitPool}}

\* the lists a caller of the engine passes to rank_nonprofits
DirectBatches ==
    {NumberEins(l) :
        l \in Batches(BatchPool, MaxBatch) \cup {<<np>> : np \in NonprofitPool}}

\* what get_nonprofit_details gives for the EIN of a request for one
\* organization, and for the EINs of a small request
ServiceDetails == {AsCollected(np) : np \in BatchPool} \cup {NotFound}

ServiceBatches == {NumberEins(l) : l \in Batches(ServiceDetails, 2)}

\* what the social media collector finds for an organization: None when it
\* raises, else the number of accounts
SocialAccounts == {None, 0, 2}

\* the weighted sums analyze_alignment can come to, around the thresholds of
\* the labels and above 1
AlignmentSums ==
    {0, (4 * Unit) \div 10, (45 * Unit) \div 100, (6 * Unit) \div 10,
     (7 * Unit) \div 10, (8 * Unit) \div 10, (9 * Unit) \div 10, Unit,
     (12 * Unit) \div 10}

\* the end-to-end scenario: the query "75201 food bank", the same with runs
\* of blanks, and the query of a ZIP code of another county
sFoodBank == <<"f","o","o","d"," ","b","a","n","k">>

q75201FoodBank == z75201 \o <<" ">> \o sFoodBank

ScenarioQueries ==
    {q75201FoodBank,
     <<" ">> \o z75201 \o <<" "," ">> \o <<"f","o","o","d">> \o <<" "," ">>
         \o <<"b","a","n","k">>,
     z75074 \o <<" ">> \o sFoodBank}

\* the organizations of the scenario's payloads: of the city in either case
\* and in another state, of a city of the county, of Plano, of a city of the
\* state outside the table, without city, of another state
ScenarioPool == <<
    Org(0, sA, sDallas, "TX", 3),
    Org(0, sA, sDALLAS, "TX", 1),
    Org(0, sA, sDallas, "GA", 2),
    Org(0, sA, sIrving, "TX", 2),
    Org(0, sA, sPlano, "TX", 2),
    Org(0, sA, sAustin, "TX", 1),
    Org(0, sA, sEmpty, "TX", 1),
    Org(0, sA, sMiami, "FL", 3) >>

ScenarioRegs ==
    UNION {{Reg200([i \in 1..k |-> ScenarioPool[f[i]]]) :
        f \in [1..k -> DOMAIN ScenarioPool]} : k \in 0..MaxListed}

\* the filings of the finance specification: the latest one over amounts
\* around every threshold of the scores (no revenue, no expenses, no
\* liabilities, assets at one, two and three times the liabilities, program
\* expenses above the total), the earlier ones fixed
FinanceLatest ==
    {FinancialData(2022, r, e, a, l, p, ad, fu) :
        r \in {0, 100}, e \in {0, 50, 100}, a \in {0, 100, 200, 300},
        l \in {0, 100}, p \in {0, 50, 100}, ad \in {0, 30}, fu \in {0, 20}}

FinanceEarlier ==
    {FinancialData(2021, 100, 100, 300, 100, 100, 0, 0),
     FinancialData(2021, 0, 0, 0, 0, 0, 0, 0)}

\* histories as get_990_data builds them, in ascending years
FinanceHistories ==
    {<<>>} \cup
    UNION {{[i \in 1..k |-> IF i = k THEN f
                            ELSE [early[i] EXCEPT !.year = 2022 - (k - i)]] :
              f \in FinanceLatest, early \in [1..(k - 1) -> FinanceEarlier]}
           : k \in 1..MaxYears}

Weights(m, r, s, c, q) ==
    [mission_weight |-> m, roi_weight |-> r, stability_weight |-> s,
     capacity_weight |-> c, data_quality_weight |-> q]

\* RankingCustomization: each weight between 0 and 1, in percent here
RankingCustomization(c) ==
    /\ c.mission_weight \in 0..100
    /\ c.roi_weight \in 0..100
    /\ c.stability_weight \in 0..100
    /\ c.capacity_weight \in 0..100
    /\ c.data_quality_weight \in 0..100

CustomWeights ==
    {c \in {Weights(35, 25, 15, 15, 10), Weights(100, 100, 100, 100, 100),
            Weights(0, 0, 0, 0, 0), Weights(100, 0, 0, 0, 0),
            Weights(50, 50, 50, 50, 50)} : RankingCustomization(c)}

\* the optional criteria of a /rank request
CustomChoices ==
    {[given |-> FALSE, weights |-> Weights(0, 0, 0, 0, 0)]}
        \cup {[given |-> TRUE, weights |-> c] : c \in CustomWeights}

MinRevenues == {0, 150000}

-----------------------------------------------------------------------------
(* Requests *)

NoRequest == [endpoint |-> "none"]
NoResponse == [status |-> NoAnswer]

DefaultCriteria ==
    [mission_weight |-> 35, roi_weight |-> 25, stability_weight |-> 15,
     capacity_weight |-> 15, data_quality_weight |-> 10]

\* tiger_search.py with its cache.  The registry of these definitions answers
\* a search by a function of the search text alone: a text that names Dallas
\* is answered with organizations of Dallas, the bare keyword with
\* organizations of several cities; the organizations carry the text as name.
RegistryAnswer(q) ==
    IF IsSubstring(sDallas, q)
    THEN Reg200(<<Org(0, q, sDallas, "TX", 2), Org(0, q, sDALLAS, "TX", 1)>>)
    ELSE Reg200(<<Org(0, q, sAustin, "TX", 3), Org(0, q, sDallas, "TX", 2),
                  Org(0, q, sMiami, "FL", 1)>>)

\* a state abbreviation as the characters an f-string puts into a text
StateText(state_abbr) ==
    IF state_abbr = "TX" THEN <<"T", "X">>
    ELSE IF state_abbr = "FL" THEN <<"F", "L">>
    ELSE IF state_abbr = "GA" THEN <<"G", "A">>
    ELSE <<>>

\* the cache keys f"zip:{zip_code}" and f"search:{keyword}:{state}"
tiger_zip_key(zip_code) == [kind |-> "zip", query |-> zip_code, state |-> ""]

tiger_search_key(keyword, state) ==
    [kind |-> "search", query |-> keyword, state |-> state]

\* the search text of fetch_results in search_by_location: params = {'q': keyword}
tiger_location_q(keyword, location) == keyword

\* the search text of fetch_results in search_with_zippopotam_fallback:
\* f"{keyword} {zip_info['city']} {zip_info['state_abbr']}"
tiger_fallback_q(keyword, zip_info) ==
    keyword \o <<" ">> \o zip_info.city \o <<" ">> \o StateText(zip_info.state_abbr)

\* geographic_search of tiger_search.py over the cache c at time t: which
\* keys it asks get_cached_or_fetch for, which registry search its
\* fetch_results would issue, and what it answers.  answer is the geocoder's
\* answer should fetch_zip be called, took the seconds an upstream call takes.
tiger_cached_search(c, t, query, answer, took) ==
    LET parts == Split(query)
        zip_code == parts[1]
        keyword == IF Len(parts) > 1 THEN Join(Tail(parts)) ELSE sNonprofit
        location == tiger_get_location_from_zip(zip_code)
        zipped == get_cached_or_fetch(c, t, tiger_zip_key(zip_code),
                                      fetch_zip(answer), took)
        zip_info == zipped.data
        found == location.found \/ zip_info.found
        c1 == IF location.found THEN c ELSE zipped.cache
        t1 == IF location.found THEN t ELSE zipped.now
        cache_key == IF location.found
                     THEN tiger_search_key(keyword, location.state)
                     ELSE tiger_search_key(keyword, zip_info.state_abbr)
        q == IF location.found THEN tiger_location_q(keyword, location)
             ELSE tiger_fallback_q(keyword, zip_info)
        searched == get_cached_or_fetch(c1, t1, cache_key, RegistryAnswer(q),
                                        took)
    IN IF ~found
       THEN [cached |-> FALSE, cache |-> c1, now |-> t1,
             body |-> search_keyword(keyword, RegistryAnswer(keyword))]
       ELSE [cached |-> TRUE, cache |-> searched.cache, now |-> searched.now,
             cache_key |-> cache_key, q |-> q, called |-> searched.called,
             data |-> searched.data,
             body |-> IF location.found
                      THEN tiger_search_by_location(location, keyword,
                                                    zip_code, searched.data)
                      ELSE search_with_zippopotam_fallback(zip_code, keyword,
                               zip_info, searched.data, searched.data)]

\* final_search.py with its cache: the keys f"search:{keyword}" of
\* search_by_location and f"zip:{zip_code}" of search_with_api_fallback
final_search_key(keyword) == [kind |-> "search", query |-> keyword, state |-> ""]

final_zip_key(zip_code) == [kind |-> "zip", query |-> zip_code, state |-> ""]

\* fetch_results of search_by_location: the registry's JSON, or
\* {'organizations': []} when the call fails or the status is not 2xx
final_fetch_results(reg) ==
    IF RegOk(reg) THEN reg ELSE [status |-> 200, organizations |-> <<>>]

\* geographic_search of final_search.py over the cache c at time t.  answer is
\* the geocoder's answer and reg the registry's, should they be called; entry
\* is what the cache held for the key before, called whether fetch_func ran.
final_cached_search(c, t, query, answer, reg, took) ==
    LET parts == Split(query)
        zip_code == parts[1]
        keyword == IF Len(parts) > 1 THEN Join(Tail(parts)) ELSE sNonprofit
        location == get_location_from_zip(zip_code)
        cache_key == IF location.found THEN final_search_key(keyword)
                     ELSE final_zip_key(zip_code)
        fetched == IF location.found THEN final_fetch_results(reg)
                   ELSE fetch_zip(answer)
        got == get_cached_or_fetch(c, t, cache_key, fetched, took)
    IN [cache |-> got.cache, now |-> got.now, cache_key |-> cache_key,
        had_entry |-> cache_key \in DOMAIN c,
        entry |-> IF cache_key \in DOMAIN c THEN c[cache_key]
                  ELSE [data |-> fetched, timestamp |-> 0],
        fetched |-> fetched, called |-> got.called, data |-> got.data,
        body |-> IF location.found
                 THEN final_search_by_location(location, keyword, zip_code,
                                               got.data)
                 ELSE search_with_api_fallback(zip_code, keyword, got.data,
                                               reg, reg)]

\* the registry answers of the stale-failure specification
StaleRegs == {Reg200(<<Org(0, sA, sDallas, "TX", 1)>>),
              [status |-> RegTimeout, organizations |-> <<>>]}

StaleQueries == {z75201 \o <<" ">> \o sa, z75299 \o <<" ">> \o sa}

\* the queries of the cache-key specification: keywords behind a ZIP code of
\* the static table and behind ZIP codes of the same state outside it
KeyQueries ==
    {z75201 \o <<" ">> \o sa, z75299 \o <<" ">> \o sa,
     z75299 \o <<" ">> \o sb}

\* the seconds an upstream call of the cache-key specification takes
KeyFetchSeconds == {10}

KeyGeoAnswers == {[kind |-> "ok", places |-> <<GeoPlace>>],
                  [kind |-> "timeout", places |-> <<>>]}

Init ==
    /\ pc = "idle"
    /\ request = NoRequest
    /\ response = NoResponse
    /\ criteria = DefaultCriteria
    /\ cache = <<>>
    /\ now = 0

FinalSearch(query, geo, reg, reg2) ==
    /\ pc = "idle"
    /\ request' = [endpoint |-> "final", query |-> query, geo |-> geo,
                   reg |-> reg, reg2 |-> reg2]
    /\ response' = final_do_GET(query, geo, reg, reg2)
    /\ pc' = "done"
    /\ UNCHANGED <<criteria, cache, now>>

TigerSearch(query, geo, reg, reg2) ==
    /\ pc = "idle"
    /\ request' = [endpoint |-> "tiger", query |-> query, geo |-> geo,
                   reg |-> reg, reg2 |-> reg2]
    /\ response' = tiger_do_GET(query, geo, reg, reg2)
    /\ pc' = "done"
    /\ UNCHANGED <<criteria, cache, now>>

CensusSearch(query, geo, reg) ==
    /\ pc = "idle"
    /\ request' = [endpoint |-> "census", query |-> query, geo |-> geo,
                   reg |-> reg]
    /\ response' = census_do_GET(query, geo, reg)
    /\ pc' = "done"
    /\ UNCHANGED <<criteria, cache, now>>

CountySearch(zip_code, keyword, reg) ==
    /\ pc = "idle"
    /\ request' = [endpoint |-> "county", zip |-> zip_code, query |-> keyword,
                   reg |-> reg]
    /\ response' = county_do_GET(zip_code, keyword, reg)
    /\ pc' = "done"
    /\ UNCHANGED <<criteria, cache, now>>

AdvancedSearch(query, keyword_param, reg, reg2) ==
    /\ pc = "idle"
    /\ request' = [endpoint |-> "advanced", query |-> query,
                   keyword_param |-> keyword_param, reg |-> reg, reg2 |-> reg2]
    /\ response' = advanced_do_GET(query, keyword_param, reg, reg2)
    /\ pc' = "done"
    /\ UNCHANGED <<criteria, cache, now>>

LocalSearch(zip_code, keyword, reg) ==
    /\ pc = "idle"
    /\ request' = [endpoint |-> "local", zip |-> zip_code, query |-> keyword,
                   reg |-> reg]
    /\ response' = local_do_GET(zip_code, keyword, reg)
    /\ pc' = "done"
    /\ UNCHANGED <<criteria, cache, now>>

\* GET /api/search of index.py.  The request keeps the time of the call and
\* the cache entry of its key as it was before the call.
IndexSearch(query, state, reg, took) ==
    /\ pc = "idle"
    /\ now + took <= MaxTime
    /\ LET key == index_cache_key(query, state)
           answer == index_do_GET(cache, now, query, state, reg, took)
       IN /\ request' = [endpoint |-> "index", query |-> query,
                         state |-> state, reg |-> reg, at |-> now,
                         had_entry |-> key \in DOMAIN cache,
                         entry |-> IF key \in DOMAIN cache THEN cache[key]
                                   ELSE [data |-> <<>>, timestamp |-> 0]]
          /\ response' = [f \in DOMAIN answer \ {"cache", "now"} |-> answer[f]]
          /\ cache' = answer.cache
          /\ now' = answer.now
    /\ pc' = "done"
    /\ UNCHANGED criteria

\* GET /api/tiger-search with the module's cache
TigerCachedSearch(query, answer, took) ==
    /\ pc = "idle"
    /\ LET r == tiger_cached_search(cache, now, query, answer, took)
       IN /\ r.now <= MaxTime
          /\ request' = [endpoint |-> "tiger_cached", query |-> query,
                         answer |-> answer, at |-> now]
                        @@ [f \in DOMAIN r \ {"cache", "now", "body"} |-> r[f]]
          /\ response' = [status |-> IF r.body.outcome = "raised"
                                     THEN NoAnswer ELSE 200,
                          body |-> r.body]
          /\ cache' = r.cache
          /\ now' = r.now
    /\ pc' = "done"
    /\ UNCHANGED criteria

\* GET /api/final-search with the module's cache, for a query that begins
\* with a ZIP code
FinalCachedSearch(query, answer, reg, took) ==
    /\ pc = "idle"
    /\ LET r == final_cached_search(cache, now, query, answer, reg, took)
       IN /\ r.now <= MaxTime
          /\ request' = [endpoint |-> "final_cached", query |-> query,
                         answer |-> answer, reg |-> reg, at |-> now]
                        @@ [f \in DOMAIN r \ {"cache", "now", "body"} |-> r[f]]
          /\ response' = [status |-> IF r.body.outcome = "raised"
                                     THEN NoAnswer ELSE 200,
                          body |-> r.body]
          /\ cache' = r.cache
          /\ now' = r.now
    /\ pc' = "done"
    /\ UNCHANGED criteria

SmartSearch(query, geo, reg) ==
    /\ pc = "idle"
    /\ request' = [endpoint |-> "smart", query |-> query, geo |-> geo,
                   reg |-> reg]
    /\ response' = smart_do_GET(query, geo, reg)
    /\ pc' = "done"
    /\ UNCHANGED <<criteria, cache, now>>

\* time passes between two requests
Tick(d) ==
    /\ pc = "idle"
    /\ now + d <= MaxTime
    /\ now' = now + d
    /\ UNCHANGED <<pc, request, response, criteria, cache>>

\* the answer has been written; what the request held is dropped
Finish ==
    /\ pc = "done"
    /\ pc' = "idle"
    /\ request' = NoRequest
    /\ response' = NoResponse
    /\ UNCHANGED <<criteria, cache, now>>

\* the tiering specification: ZIP searches with a resolved location over the
\* registry payloads of TierRegs
NextTier ==
    \/ /\ pc = "idle"
       /\ \E q \in TierQueries, reg \in TierRegs :
             FinalSearch(q, GeoNone, reg, reg)
    \/ /\ pc = "idle"
       /\ \E q \in TierQueries, reg \in TierRegs :
             TigerSearch(q, GeoNone, reg, reg)
    \/ /\ pc = "idle"
       /\ \E geo \in CensusGeos \ {GeoNone}, reg \in TierRegs :
             CensusSearch(z75201 \o <<" ">> \o sa, geo, reg)
    \/ /\ pc = "idle"
       /\ \E z \in CountyZips, reg \in TierRegs : CountySearch(z, sa, reg)
    \/ Finish

SpecTier == Init /\ [][NextTier]_vars

\* POST /rank: the criteria of the request replace those of the module-level
\* engine before anything else happens
RankNonprofits(details, custom) ==
    /\ pc = "idle"
    /\ criteria' = IF custom.given THEN custom.weights ELSE criteria
    /\ request' = [endpoint |-> "rank", details |-> details, custom |-> custom]
    /\ response' = rank_endpoint(details, criteria')
    /\ pc' = "done"
    /\ UNCHANGED <<cache, now>>

\* POST /search
SearchNonprofits(any_result, details, min_revenue) ==
    /\ pc = "idle"
    /\ request' = [endpoint |-> "search", any_result |-> any_result,
                   details |-> details, min_revenue |-> min_revenue]
    /\ response' = search_endpoint(any_result, details, min_revenue, criteria)
    /\ pc' = "done"
    /\ UNCHANGED <<criteria, cache, now>>

\* a caller of the engine ranks a list with the criteria the engine has
\* (get_top_partners, the command line)
RankDirect(nonprofits) ==
    /\ pc = "idle"
    /\ request' = [endpoint |-> "direct", details |-> nonprofits]
    /\ response' = [status |-> 200, nonprofits |-> nonprofits,
                    ranked |-> rank_nonprofits(nonprofits, criteria)]
    /\ pc' = "done"
    /\ UNCHANGED <<criteria, cache, now>>

\* the ranking specification
\* GET /nonprofit/{ein}
GetNonprofit(detail) ==
    /\ pc = "idle"
    /\ request' = [endpoint |-> "nonprofit", detail |-> detail]
    /\ response' = nonprofit_endpoint(detail, criteria)
    /\ pc' = "done"
    /\ UNCHANGED <<criteria, cache, now>>

\* POST /analyze/{ein}
AnalyzeNonprofit(detail) ==
    /\ pc = "idle"
    /\ request' = [endpoint |-> "analyze", detail |-> detail]
    /\ response' = analyze_endpoint(detail)
    /\ pc' = "done"
    /\ UNCHANGED <<criteria, cache, now>>

\* GET /compare
CompareNonprofits(detail1, detail2) ==
    /\ pc = "idle"
    /\ request' = [endpoint |-> "compare", detail1 |-> detail1,
                   detail2 |-> detail2]
    /\ response' = compare_endpoint(detail1, detail2, criteria)
    /\ pc' = "done"
    /\ UNCHANGED <<criteria, cache, now>>

\* a request begins; servers says how the service of each call behaves
BeginRequest(endpoint, servers) ==
    /\ pc = "idle"
    /\ request' = [endpoint |-> endpoint, calls |-> Handlers[endpoint],
                   servers |-> servers, no_data |-> <<>>, waited |-> 0]
    /\ response' = NoResponse
    /\ pc' = "calling"
    /\ UNCHANGED <<criteria, cache, now>>

\* the call the handler is blocked in
PendingCall == Head(request.calls)

PendingServer == request.servers[Len(request.servers) - Len(request.calls) + 1]

\* the calls left once the pending call is over
CallsLeft(got_data) ==
    IF ~got_data /\ StopsWithoutData(request.endpoint, PendingCall.service)
    THEN <<>>
    ELSE Tail(request.calls)

\* the service answers: with data, or with an error taken as no data
CallReturns ==
    /\ pc = "calling"
    /\ request.calls # <<>>
    /\ PendingServer # "silent"
    /\ request' = [request EXCEPT
                      !.calls = CallsLeft(PendingServer = "answers"),
                      !.no_data = IF PendingServer = "answers" THEN @
                                  ELSE Append(@, PendingCall.service)]
    /\ UNCHANGED <<pc, response, criteria, cache, now>>

\* the service is silent and the timeout of the call expires: the exception
\* is caught where the call is made and taken as no data
CallTimesOut ==
    /\ pc = "calling"
    /\ request.calls # <<>>
    /\ PendingServer = "silent"
    /\ PendingCall.timeout # None
    /\ request' = [request EXCEPT
                      !.calls = CallsLeft(FALSE),
                      !.no_data = Append(@, PendingCall.service),
                      !.waited = @ + PendingCall.timeout]
    /\ UNCHANGED <<pc, response, criteria, cache, now>>

\* no call is left: the handler writes its answer
Respond ==
    /\ pc = "calling"
    /\ request.calls = <<>>
    /\ response' = [status |-> 200, no_data |-> request.no_data,
                    waited |-> request.waited]
    /\ pc' = "done"
    /\ UNCHANGED <<request, criteria, cache, now>>

\* the background task of POST /search, run once the answer has been sent:
\* enrich_nonprofit_data takes the next organization of the ranked list
Enrich(accounts) ==
    /\ pc = "done"
    /\ request.endpoint = "search"
    /\ response.status = 200
    /\ response.enriched < Len(response.background)
    /\ LET k == response.enriched + 1
       IN response' = [response EXCEPT
                          !.background[k] = enrich_nonprofit(@, accounts, criteria),
                          !.enriched = k]
    /\ UNCHANGED <<pc, request, criteria, cache, now>>

\* an organization is analysed and the result is stored on it, as
\* rank_nonprofits, GET /nonprofit/{ein} and deep_analyze_nonprofit do.  The
\* first analysis is of an organization as collected; a later one is of the
\* organization the earlier one left, whose data may have changed meanwhile.
AnalyzeAlignment(weighted) ==
    /\ \/ pc = "idle"
       \/ /\ pc = "done"
          /\ request.endpoint = "alignment"
          /\ response.passes < MaxPasses
    /\ LET before == IF pc = "idle"
                     THEN Nonprofit(weighted, 0, "none", History1, 0)
                     ELSE [response.nonprofit EXCEPT !.mission_result = weighted]
           result == analyze_alignment(before)
       IN /\ request' = [endpoint |-> "alignment", nonprofit |-> before,
                         previous |-> IF pc = "idle" THEN <<>>
                                      ELSE <<response.result>>,
                         changed |-> IF pc = "idle" THEN FALSE
                                     ELSE weighted # response.nonprofit.mission_result]
          /\ response' = [status |-> 200, result |-> result,
                          passes |-> IF pc = "idle" THEN 1
                                     ELSE response.passes + 1,
                          nonprofit |-> [before EXCEPT
                                            !.mission_alignment = result.score]]
    /\ pc' = "done"
    /\ UNCHANGED <<criteria, cache, now>>

\* the financial scores of an organization are computed: the stability score
\* and, for each filing, the two expense ratios.  A ratio without value is an
\* exception, and the caller has no answer.
FinancialScores(financial_history) ==
    /\ pc = "idle"
    /\ LET np == Nonprofit(0, 0, "none", financial_history, 0)
           ratios == [i \in DOMAIN financial_history |->
                        [program_expense_ratio |->
                             program_expense_ratio(financial_history[i]),
                         overhead_ratio |-> overhead_ratio(financial_history[i])]]
           raised == \E i \in DOMAIN ratios :
                        None \in {ratios[i].program_expense_ratio,
                                  ratios[i].overhead_ratio}
       IN /\ request' = [endpoint |-> "finance", nonprofit |-> np]
          /\ response' = IF raised THEN [status |-> NoAnswer]
                         ELSE [status |-> 200, ratios |-> ratios,
                               stability |-> calculate_stability_score(np)]
    /\ pc' = "done"
    /\ UNCHANGED <<criteria, cache, now>>

NextRank ==
    \/ /\ pc = "idle"
       /\ \E details \in DetailsBatches, custom \in CustomChoices :
             RankNonprofits(details, custom)
    \/ /\ pc = "idle"
       /\ \E details \in DetailsBatches, min_revenue \in MinRevenues :
             SearchNonprofits(TRUE, details, min_revenue)
    \/ /\ pc = "idle"
       /\ \E nonprofits \in DirectBatches : RankDirect(nonprofits)
    \/ /\ pc = "idle"
       /\ \E min_revenue \in MinRevenues :
             SearchNonprofits(FALSE, <<>>, min_revenue)
    \/ Finish

SpecRank == Init /\ [][NextRank]_vars

\* the parsing specification: every endpoint that takes a free query, over the
\* queries of ParseQueries
NextParse ==
    \/ /\ pc = "idle"
       /\ \E q \in ParseQueries, geo \in ZipGeos, reg \in ParseRegs :
             FinalSearch(q, geo, reg, reg)
    \/ /\ pc = "idle"
       /\ \E q \in ParseQueries, geo \in ZipGeos, reg \in ParseRegs :
             TigerSearch(q, geo, reg, reg)
    \/ /\ pc = "idle"
       /\ \E q \in ParseQueries, geo \in ZipGeos, reg \in ParseRegs :
             CensusSearch(q, IF geo.found THEN geo @@ [county |-> "Dallas County"]
                             ELSE geo, reg)
    \/ /\ pc = "idle"
       /\ \E q \in ParseQueries, k \in KeywordParams, reg \in ParseRegs :
             AdvancedSearch(q, k, reg, reg)
    \/ Finish

SpecParse == Init /\ [][NextParse]_vars

\* the resolving specification: the four endpoints that take a ZIP code, over
\* ZIP codes inside and outside the static tables and every geocoder answer
NextResolve ==
    \/ /\ pc = "idle"
       /\ \E z \in ResolveZips, ans \in GeoAnswers, reg \in ResolveRegs,
             reg2 \in ResolveRegs :
             FinalSearch(z \o <<" ">> \o sa, fetch_zip(ans), reg, reg2)
    \/ /\ pc = "idle"
       /\ \E z \in ResolveZips, ans \in GeoAnswers, reg \in ResolveRegs,
             reg2 \in ResolveRegs :
             TigerSearch(z \o <<" ">> \o sa, fetch_zip(ans), reg, reg2)
    \/ /\ pc = "idle"
       /\ \E z \in ResolveZips, reg \in ResolveRegs : LocalSearch(z, sa, reg)
    \/ /\ pc = "idle"
       /\ \E z \in ResolveZips, reg \in ResolveRegs : CountySearch(z, sa, reg)
    \/ Finish

SpecResolve == Init /\ [][NextResolve]_vars

\* the cache specification: requests to /api/search of index.py in sequence,
\* with time passing between them
NextCache ==
    \/ /\ pc = "idle"
       /\ \E q \in IndexQueries, st \in IndexStates, reg \in IndexRegs,
             took \in FetchSeconds : IndexSearch(q, st, reg, took)
    \/ /\ pc = "idle"
       /\ \E d \in ClockSteps : Tick(d)
    \/ Finish

SpecCache == Init /\ [][NextCache]_vars

\* the upstream specification: every search path of the handlers under api/,
\* over registry answers that fail and payloads with malformed organizations
NextUpstream ==
    \/ /\ pc = "idle"
       /\ \E q \in UpstreamQueries, ans \in UpstreamGeos, reg \in UpstreamRegs,
             reg2 \in UpstreamRegs :
             FinalSearch(q, fetch_zip(ans), reg, reg2)
    \/ /\ pc = "idle"
       /\ \E q \in UpstreamQueries, ans \in UpstreamGeos, reg \in UpstreamRegs,
             reg2 \in UpstreamRegs :
             TigerSearch(q, fetch_zip(ans), reg, reg2)
    \/ /\ pc = "idle"
       /\ \E z \in ResolveZips, reg \in UpstreamRegs : LocalSearch(z, sa, reg)
    \/ /\ pc = "idle"
       /\ \E z \in ResolveZips, reg \in UpstreamRegs : CountySearch(z, sa, reg)
    \/ /\ pc = "idle"
       /\ \E q \in IndexQueries, st \in IndexStates, reg \in IndexRegs :
             IndexSearch(q, st, reg, 0)
    \/ Finish

SpecUpstream == Init /\ [][NextUpstream]_vars

\* the service specification: the endpoints of main.py that look
\* organizations up by EIN or by ZIP code
NextService ==
    \/ /\ pc = "idle"
       /\ \E details \in ServiceBatches, custom \in CustomChoices :
             RankNonprofits(details, custom)
    \/ /\ pc = "idle"
       /\ \E any_result \in BOOLEAN, details \in ServiceBatches,
             min_revenue \in MinRevenues :
             SearchNonprofits(any_result, IF any_result THEN details ELSE <<>>,
                              min_revenue)
    \/ /\ pc = "idle"
       /\ \E d \in ServiceDetails : GetNonprofit(NumberEins(<<d>>)[1])
    \/ /\ pc = "idle"
       /\ \E d \in ServiceDetails : AnalyzeNonprofit(NumberEins(<<d>>)[1])
    \/ /\ pc = "idle"
       /\ \E d \in ServiceBatches : Len(d) = 2 /\ CompareNonprofits(d[1], d[2])
    \/ Finish

SpecService == Init /\ [][NextService]_vars

\* the enrichment specification: POST /search and its background task, which
\* may stop anywhere (the request is over when Finish is taken)
NextEnrich ==
    \/ /\ pc = "idle"
       /\ \E any_result \in BOOLEAN, details \in ServiceBatches,
             min_revenue \in MinRevenues :
             SearchNonprofits(any_result, IF any_result THEN details ELSE <<>>,
                              min_revenue)
    \/ \E accounts \in SocialAccounts : Enrich(accounts)
    \/ Finish

SpecEnrich == Init /\ [][NextEnrich]_vars

\* the alignment specification: organizations analysed once or several times
NextAlign ==
    \/ \E weighted \in AlignmentSums : AnalyzeAlignment(weighted)
    \/ Finish

SpecAlign == Init /\ [][NextAlign]_vars

\* the finance specification: the scores computed from the filings alone
NextFinance ==
    \/ /\ pc = "idle"
       /\ \E h \in FinanceHistories : FinancialScores(h)
    \/ Finish

SpecFinance == Init /\ [][NextFinance]_vars

\* the scenario specification: /api/final-search for the queries of the
\* end-to-end scenario, the ZIP codes being rows of the static table
NextScenario ==
    \/ /\ pc = "idle"
       /\ \E query \in ScenarioQueries, reg \in ScenarioRegs :
             FinalSearch(query, GeoNone, reg, reg)
    \/ Finish

SpecScenario == Init /\ [][NextScenario]_vars

\* the cache-key specification: /api/tiger-search requests sharing the
\* module's cache, time passing between them
NextKeys ==
    \/ /\ pc = "idle"
       /\ \E query \in KeyQueries, answer \in KeyGeoAnswers,
             took \in KeyFetchSeconds : TigerCachedSearch(query, answer, took)
    \/ /\ pc = "idle"
       /\ \E d \in ClockSteps : Tick(d)
    \/ Finish

SpecKeys == Init /\ [][NextKeys]_vars

\* the stale-failure specification: /api/final-search requests sharing the
\* module's cache while the geocoder and the registry fail and recover
NextStale ==
    \/ /\ pc = "idle"
       /\ \E query \in StaleQueries, answer \in KeyGeoAnswers,
             reg \in StaleRegs, took \in KeyFetchSeconds :
               FinalCachedSearch(query, answer, reg, took)
    \/ /\ pc = "idle"
       /\ \E d \in ClockSteps : Tick(d)
    \/ Finish

SpecStale == Init /\ [][NextStale]_vars

\* the locality specification: the six endpoints that sort candidates by
\* place, for a ZIP code of Dallas, over payloads of at most one organization
NextLocality ==
    \/ /\ pc = "idle"
       /\ \E reg \in ResolveRegs :
             FinalSearch(z75201 \o <<" ">> \o sa, GeoNone, reg, reg)
    \/ /\ pc = "idle"
       /\ \E reg \in ResolveRegs :
             TigerSearch(z75201 \o <<" ">> \o sa, GeoNone, reg, reg)
    \/ /\ pc = "idle"
       /\ \E geo \in CensusGeos, reg \in ResolveRegs :
             CensusSearch(z75201 \o <<" ">> \o sa, geo, reg)
    \/ /\ pc = "idle"
       /\ \E reg \in ResolveRegs : CountySearch(z75201, sa, reg)
    \/ /\ pc = "idle"
       /\ \E reg \in ResolveRegs : LocalSearch(z75201, sa, reg)
    \/ /\ pc = "idle"
       /\ \E geo \in ZipGeos, reg \in ResolveRegs :
             SmartSearch(z75201 \o <<" ">> \o sa, geo, reg)
    \/ Finish

SpecLocality == Init /\ [][NextLocality]_vars

-----------------------------------------------------------------------------
(* get_cached_or_fetch statement by statement, for two requests that run at
   the same time over the module's cache (index.py 16-26; the same text in
   final_search.py, tiger_search.py, census_geo_search.py,
   advanced_search.py and smart_local_search.py).  In this specification pc,
   request and response are functions of the request; request[p] holds the
   locals of the call. *)

Requests == {1, 2}

\* the keys the two requests ask for, and what a fetch_func can return: None
\* (a failure) or one of two payloads
RaceKeys == {"zip:75201", "search:a"}

FetchReturns == {None, 1, 2}

\* no fetch made, no entry read
NoFetch == -2

NoEntry == [data |-> NoFetch, timestamp |-> 0]

\* the locals of a call that has not begun
NoCall == [cache_key |-> "", entry |-> NoEntry, compared_at |-> 0,
           fetched |-> NoFetch, stored_at |-> 0]

\* the cache after the comparison found an entry expired, with the entry
\* deleted
after_expiry_Evicting(c, cache_key) ==
    [k \in DOMAIN c \ {cache_key} |-> c[k]]

\* the cache after the comparison found an entry expired: the code leaves
\* the entry where it is and goes on to fetch_func
after_expiry(c, cache_key) ==
    c

InitRace ==
    /\ pc = [p \in Requests |-> "idle"]
    /\ request = [p \in Requests |-> NoCall]
    /\ response = [p \in Requests |-> NoFetch]
    /\ criteria = DefaultCriteria
    /\ cache = <<>>
    /\ now = 0

\* a request calls get_cached_or_fetch(cache_key, fetch_func)
RaceCall(p, cache_key) ==
    /\ pc[p] = "idle"
    /\ pc' = [pc EXCEPT ![p] = "check"]
    /\ request' = [request EXCEPT ![p] = [NoCall EXCEPT !.cache_key = cache_key]]
    /\ UNCHANGED <<response, criteria, cache, now>>

\* if cache_key in cache:
RaceCheck(p) ==
    /\ pc[p] = "check"
    /\ pc' = [pc EXCEPT ![p] = IF request[p].cache_key \in DOMAIN cache
                                THEN "read" ELSE "fetch"]
    /\ UNCHANGED <<request, response, criteria, cache, now>>

\* cached_data, timestamp = cache[cache_key]: KeyError without the key
RaceRead(p) ==
    /\ pc[p] = "read"
    /\ IF request[p].cache_key \in DOMAIN cache
       THEN /\ pc' = [pc EXCEPT ![p] = "compare"]
            /\ request' = [request EXCEPT
                              ![p].entry = cache[request[p].cache_key]]
       ELSE /\ pc' = [pc EXCEPT ![p] = "raised"]
            /\ UNCHANGED request
    /\ UNCHANGED <<response, criteria, cache, now>>

\* if datetime.now() - timestamp < timedelta(seconds=CACHE_DURATION):
\*     return cached_data
RaceCompare(p) ==
    /\ pc[p] = "compare"
    /\ request' = [request EXCEPT ![p].compared_at = now]
    /\ IF now - request[p].entry.timestamp < CACHE_DURATION
       THEN /\ pc' = [pc EXCEPT ![p] = "done"]
            /\ response' = [response EXCEPT ![p] = request[p].entry.data]
            /\ UNCHANGED cache
       ELSE /\ pc' = [pc EXCEPT ![p] = "fetch"]
            /\ cache' = after_expiry(cache, request[p].cache_key)
            /\ UNCHANGED response
    /\ UNCHANGED <<criteria, now>>

\* data = fetch_func()
RaceFetch(p, data) ==
    /\ pc[p] = "fetch"
    /\ pc' = [pc EXCEPT ![p] = "store"]
    /\ request' = [request EXCEPT ![p].fetched = data]
    /\ UNCHANGED <<response, criteria, cache, now>>

\* cache[cache_key] = (data, datetime.now()); return data
RaceStore(p) ==
    /\ pc[p] = "store"
    /\ pc' = [pc EXCEPT ![p] = "done"]
    /\ cache' = (request[p].cache_key :>
                    [data |-> request[p].fetched, timestamp |-> now]) @@ cache
    /\ request' = [request EXCEPT ![p].stored_at = now]
    /\ response' = [response EXCEPT ![p] = request[p].fetched]
    /\ UNCHANGED <<criteria, now>>

\* time passes, at any point of either call
RaceTick(d) ==
    /\ now + d <= MaxTime
    /\ now' = now + d
    /\ UNCHANGED <<pc, request, response, criteria, cache>>

\* both requests have been answered; the next two begin
RaceOver ==
    /\ \A p \in Requests : pc[p] = "done"
    /\ pc' = [p \in Requests |-> "idle"]
    /\ request' = [p \in Requests |-> NoCall]
    /\ response' = [p \in Requests |-> NoFetch]
    /\ UNCHANGED <<criteria, cache, now>>

NextRace ==
    \/ \E p \in Requests, k \in RaceKeys : RaceCall(p, k)
    \/ \E p \in Requests : RaceCheck(p)
    \/ \E p \in Requests : RaceRead(p)
    \/ \E p \in Requests : RaceCompare(p)
    \/ \E p \in Requests, data \in FetchReturns : RaceFetch(p, data)
    \/ \E p \in Requests : RaceStore(p)
    \/ \E d \in ClockSteps : RaceTick(d)
    \/ RaceOver

SpecRace == InitRace /\ [][NextRace]_vars

\* the call specification: requests seen as the sequence of external calls
\* they block in.  A call that is answered returns, a timeout that is set
\* expires, a handler with no call left answers: weak fairness of the three.
NextCall ==
    \/ /\ pc = "idle"
       /\ \E endpoint \in DOMAIN Handlers :
             \E servers \in [1..Len(Handlers[endpoint]) -> ServerBehaviours] :
                BeginRequest(endpoint, servers)
    \/ CallReturns
    \/ CallTimesOut
    \/ Respond
    \/ Finish

SpecCall ==
    /\ Init
    /\ [][NextCall]_vars
    /\ WF_vars(CallReturns)
    /\ WF_vars(CallTimesOut)
    /\ WF_vars(Respond)

-----------------------------------------------------------------------------
(* Claims about the geographic tiering *)

\* a tiered answer: the handler returned the three tier lists
HasTiers ==
    /\ pc = "done"
    /\ response.status = 200
    /\ "exact_city" \in DOMAIN response.body

TieredBy(endpoints) == HasTiers /\ request.endpoint \in endpoints

Eins(l) == {l[i].ein : i \in DOMAIN l}

\* the organizations the handler looped over
Candidates == FetchResults(request.reg)

TierEins == Eins(response.body.exact_city) \cup Eins(response.body.same_county)
                \cup Eins(response.body.same_state)

TiersDisjoint ==
    /\ Eins(response.body.exact_city) \cap Eins(response.body.same_county) = {}
    /\ Eins(response.body.exact_city) \cap Eins(response.body.same_state) = {}
    /\ Eins(response.body.same_county) \cap Eins(response.body.same_state) = {}
    /\ Len(response.body.exact_city) + Len(response.body.same_county)
          + Len(response.body.same_state) = Cardinality(TierEins)

ClaimedTier(org, location, nearby_cities) ==
    IF Lower(GetCity(org).s) = Lower(location.city) THEN "exact"
    ELSE IF \E i \in DOMAIN nearby_cities :
                Lower(nearby_cities[i]) = Lower(GetCity(org).s) THEN "county"
    ELSE IF GetState(org) = location.state THEN "state"
    ELSE "other"

ActualTier(org) ==
    IF org.ein \in Eins(response.body.exact_city) THEN "exact"
    ELSE IF org.ein \in Eins(response.body.same_county) THEN "county"
    ELSE IF org.ein \in Eins(response.body.same_state) THEN "state"
    ELSE "other"

\* C2 as stated: each candidate's tier is the first match of: city equal to the
\* location's city ignoring case; city a member, ignoring case, of the county's
\* nearby-cities list; state equal to the location's state; otherwise other.
C2_AsStated ==
    TieredBy({"final", "tiger"}) =>
        \A i \in DOMAIN Candidates :
            ActualTier(Candidates[i]) =
                ClaimedTier(Candidates[i], response.body.location,
                    get_cities_in_county(response.body.location.county,
                                         response.body.location.state))

ByTier(l1, c1, l2, c2, l3, c3) == Take(l1, c1) \o Take(l2, c2) \o Take(l3, c3)

\* C8 as stated: the results are at most 10 exact-tier candidates, then at most
\* 8 county-tier candidates, then at most 5 state-tier candidates, the
\* state-tier ones only when the exact and county tiers do not fill their caps.
C8_AsStated ==
    TieredBy({"final", "tiger", "census"}) =>
        LET b == response.body
            sparse == Len(b.exact_city) < 10 \/ Len(b.same_county) < 8
        IN b.results = ByTier(b.exact_city, 10, b.same_county, 8,
                              b.same_state, IF sparse THEN 5 ELSE 0)

\* C8 amended: the results are the first 10 exact-tier, then the first 8
\* county-tier, then the first 2 state-tier candidates in final_search and
\* tiger_search, and the first 10, 5 and 5 in census_geo_search; the state-tier
\* candidates are appended whatever the sizes of the other tiers.
C8_CapsPerEndpoint ==
    /\ TieredBy({"final", "tiger"}) =>
          response.body.results =
              ByTier(response.body.exact_city, 10, response.body.same_county, 8,
                     response.body.same_state, 2)
    /\ TieredBy({"census"}) =>
          response.body.results =
              ByTier(response.body.exact_city, 10, response.body.same_county, 5,
                     response.body.same_state, 5)

C8_Witness ==
    /\ TieredBy({"final"})
    /\ Len(response.body.exact_city) > 10
    /\ Len(response.body.same_county) > 8
    /\ Len(response.body.same_state) > 2
    /\ Len(response.body.results) = 20

\* the registry's relevance score of the candidate a tier entry came from
ScoreOf(entry) ==
    GetScore(CHOOSE o \in Range(Candidates) : o.ein = entry.ein)

\* l is in descending order of registry score, equal scores in registry order
\* (the ein of the model is the place in the payload)
SortedByScore(l) ==
    \A i, j \in DOMAIN l : i < j =>
        \/ ScoreOf(l[i]) > ScoreOf(l[j])
        \/ (ScoreOf(l[i]) = ScoreOf(l[j]) /\ l[i].ein < l[j].ein)

SortedByName(l) ==
    \A i, j \in DOMAIN l : i < j =>
        \/ StrLess(l[i].name, l[j].name)
        \/ (l[i].name = l[j].name /\ l[i].ein < l[j].ein)

-----------------------------------------------------------------------------
(* Ranking claims, checked under SpecRank *)

\* a ranking request has been answered with a ranked list
Ranked ==
    /\ pc = "done"
    /\ request.endpoint \in {"rank", "search", "direct"}
    /\ response.status = 200

\* what identifies an organization and what its scores are computed from
Intrinsic(np) ==
    [ein |-> np.ein, mission_result |-> np.mission_result,
     roi_result |-> np.roi_result, raises |-> np.raises,
     financial_history |-> np.financial_history,
     data_quality_score |-> np.data_quality_score]

\* the position of an organization of the output in the input
InputPos(np) ==
    CHOOSE k \in DOMAIN response.nonprofits : response.nonprofits[k].ein = np.ein

FullScale == 100 * Unit

\* C3: rank_nonprofits returns every input organization exactly once, with
\* ranking fields 1..N in list position order; an empty input gives an empty
\* list.
C3_RankIsPermutation ==
    Ranked =>
        LET inp == response.nonprofits
            out == response.ranked
        IN /\ Len(out) = Len(inp)
           /\ \A i \in DOMAIN inp :
                 Cardinality({j \in DOMAIN out :
                                 Intrinsic(out[j]) = Intrinsic(inp[i])}) = 1
           /\ \A j \in DOMAIN out : out[j].ranking = j
           /\ (inp = <<>> => out = <<>>)

C3_Witness ==
    /\ Ranked
    /\ Len(response.ranked) >= 3
    /\ response.ranked[1].ein # response.nonprofits[1].ein
    /\ response.ranked[3].ranking = 3

\* C4: the returned list is in non-increasing overall_score order,
\* organizations of equal overall_score keep their input order, and ranking the
\* returned list again gives the same list with the same rank numbers.
C4_SortedStableIdempotent ==
    Ranked =>
        LET out == response.ranked
        IN /\ \A i, j \in DOMAIN out :
                 i < j => out[i].overall_score >= out[j].overall_score
           /\ \A i, j \in DOMAIN out :
                 (i < j /\ out[i].overall_score = out[j].overall_score)
                    => InputPos(out[i]) < InputPos(out[j])
           /\ rank_nonprofits(out, criteria) = out

C4_Witness ==
    /\ Ranked
    /\ LET out == response.ranked
       IN /\ \E i, j \in DOMAIN out :
                /\ i < j
                /\ out[i].overall_score = out[j].overall_score
                /\ out[i].overall_score > 0
          /\ \E i, j \in DOMAIN out :
                /\ i < j
                /\ out[i].overall_score > out[j].overall_score
                /\ InputPos(out[i]) > InputPos(out[j])

\* C5: an organization whose scoring raises gets overall_score 0 and stays in
\* the output with its rank, every other organization of the batch is scored
\* and ranked, and a non-empty batch is always answered with the ranked list.
C5_FailureScoresZero ==
    /\ Ranked =>
          \A i \in DOMAIN response.nonprofits :
             LET np == response.nonprofits[i]
                 analysed == [np EXCEPT !.mission_alignment = np.mission_result,
                                        !.partnership_roi = np.roi_result]
             IN \E j \in DOMAIN response.ranked :
                   /\ response.ranked[j].ein = np.ein
                   /\ response.ranked[j].ranking = j
                   /\ response.ranked[j].overall_score =
                         IF np.raises # "none" THEN 0
                         ELSE calculate_overall_score(analysed, criteria)
    /\ (/\ pc = "done"
        /\ request.endpoint = "rank"
        /\ Resolved(request.details) # <<>>) => response.status = 200

C5_Witness ==
    /\ Ranked
    /\ \E i, j, k \in DOMAIN response.ranked :
          /\ i < j /\ j < k
          /\ response.ranked[i].raises = "none"
          /\ response.ranked[i].overall_score > 0
          /\ response.ranked[j].raises = "none"
          /\ response.ranked[j].overall_score > 0
          /\ response.ranked[k].raises # "none"
          /\ response.ranked[k].overall_score = 0
          /\ InputPos(response.ranked[k]) = 1

\* C6: with the default weights every overall score lies between 0 and 1,
\* whatever the sub-scores between 0 and 1 and the non-negative ROI estimate.
C6_DefaultWeightsWithinUnit ==
    (Ranked /\ criteria = DefaultCriteria) =>
        \A j \in DOMAIN response.ranked :
           /\ response.ranked[j].overall_score >= 0
           /\ response.ranked[j].overall_score <= FullScale

C6_Witness ==
    /\ Ranked
    /\ criteria = DefaultCriteria
    /\ \E j \in DOMAIN response.ranked :
          /\ response.ranked[j].overall_score = FullScale
          /\ response.ranked[j].partnership_roi > RoiNormalizer

\* C7: for every weight configuration /rank accepts, every overall score
\* produced by rank_nonprofits lies between 0 and 1.
C7_AsStated ==
    Ranked =>
        \A j \in DOMAIN response.ranked :
           /\ response.ranked[j].overall_score >= 0
           /\ response.ranked[j].overall_score <= FullScale

-----------------------------------------------------------------------------
(* Query parsing claim, checked under SpecParse *)

FiveDigits(t) ==
    /\ Len(t) = 5
    /\ \A i \in DOMAIN t :
          t[i] \in {"0", "1", "2", "3", "4", "5", "6", "7", "8", "9"}

\* a search resolved, or tried to resolve, a location
LocationLookup(body) ==
    \/ body.static_lookup
    \/ ("geocoder" \in DOMAIN body /\ body.geocoder)

Parsed(endpoints) ==
    /\ pc = "done"
    /\ request.endpoint \in endpoints
    /\ response.status # 400

\* the claimed parsing of the query of the request, against what the handler
\* searched for
ParsedAsClaimed ==
    LET parts == Split(request.query)
        body == response.body
    IN IF parts # <<>> /\ FiveDigits(parts[1])
       THEN /\ LocationLookup(body)
            /\ "zip_code" \in DOMAIN body => body.zip_code = parts[1]
            /\ body.route # "keyword" =>
                  body.keyword = IF Len(parts) > 1 THEN Join(Tail(parts))
                                 ELSE sNonprofit
       ELSE /\ body.route = "keyword"
            /\ body.keyword = request.query
            /\ ~LocationLookup(body)

\* C10: a first token of exactly five digits is the ZIP code and the remaining
\* tokens joined by single spaces are the keyword, 'nonprofit' when nothing
\* remains; otherwise the whole query is the keyword and no location is looked
\* up.
C10_AsStated ==
    Parsed({"final", "tiger", "census", "advanced"}) => ParsedAsClaimed

\* what holds of the claim: the handlers that split the query first
C10_SplitFirstHandlers ==
    Parsed({"final", "tiger", "census"}) => ParsedAsClaimed

C10_AdvancedDiverges ==
    /\ Parsed({"advanced"})
    /\ Split(request.query) = <<z75201>>
    /\ response.body.route = "keyword"

-----------------------------------------------------------------------------
(* C11: location resolution order *)

\* the ZIP code of the request in flight
RequestZip ==
    IF request.endpoint \in {"final", "tiger"} THEN Split(request.query)[1]
    ELSE request.zip

\* whether the static table of the endpoint in flight has the ZIP code
StaticHit ==
    CASE request.endpoint = "final" -> get_location_from_zip(RequestZip).found
      [] request.endpoint = "tiger" ->
            tiger_get_location_from_zip(RequestZip).found
      [] request.endpoint = "local" -> RequestZip \in DOMAIN ZIP_TO_CITY
      [] request.endpoint = "county" -> RequestZip \in DOMAIN ZIP_TO_COUNTY

\* whether the remote geocoder was asked and gave a location
GeocoderLocated ==
    /\ response.body.geocoder
    /\ request.geo.found

\* C11: on each of the four ZIP endpoints an answered request asked the static
\* table first, asked the remote geocoder only when the static table had no
\* entry, and, when neither gave a location, was answered 200 by the
\* keyword-only search.
C11_AsStated ==
    (pc = "done" /\ request.endpoint \in {"final", "tiger", "local", "county"}
        /\ response.status # NoAnswer) =>
        /\ response.status = 200
        /\ response.body.static_lookup
        /\ response.body.geocoder => ~StaticHit
        /\ (~StaticHit /\ ~GeocoderLocated) => response.body.route = "keyword"

\* the part of C11 the split-first endpoints final_search and tiger_search keep
C11_FinalAndTigerResolve ==
    (pc = "done" /\ request.endpoint \in {"final", "tiger"}
        /\ response.status # NoAnswer) =>
        /\ response.status = 200
        /\ response.body.static_lookup
        /\ response.body.geocoder <=> ~StaticHit
        /\ (~StaticHit /\ ~request.geo.found) => response.body.route = "keyword"

\* local_search answers a ZIP code outside its table without asking a
\* geocoder and without a keyword search
C11_LocalDiverges ==
    /\ pc = "done"
    /\ request.endpoint = "local"
    /\ ~StaticHit
    /\ response.status = 200
    /\ ~response.body.geocoder
    /\ response.body.route = "unknown_zip"

-----------------------------------------------------------------------------
(* C12: the read-through cache, checked under SpecCache *)

\* a request to /api/search of index.py has been answered from a query
Searched == pc = "done" /\ request.endpoint = "index" /\ response.status = 200

\* the entry of the key was younger than CACHE_DURATION when the call began
Fresh == request.had_entry /\ request.at - request.entry.timestamp < CACHE_DURATION

RequestKey == index_cache_key(request.query, request.state)

\* C12: a call with an entry younger than 3600 seconds returns the stored
\* value without calling fetch and leaves the entry as it was; any other call
\* calls fetch (once), returns its result and stores it with the time after
\* the call; so a fetch begins at least 3600 seconds after the previous fetch
\* for the same key ended.
C12_CacheServesFreshEntries ==
    Searched =>
        /\ Fresh =>
              /\ ~response.called
              /\ response.body.results = request.entry.data
              /\ cache[RequestKey] = request.entry
        /\ ~Fresh =>
              /\ response.called
              /\ response.body.results = index_fetch(request.reg)
              /\ cache[RequestKey] = [data |-> index_fetch(request.reg),
                                      timestamp |-> now]
        /\ (response.called /\ request.had_entry) =>
              request.at - request.entry.timestamp >= CACHE_DURATION

\* an entry one second short of CACHE_DURATION is served although the
\* registry would answer something else now
C12_Witness ==
    /\ Searched
    /\ Fresh
    /\ request.at - request.entry.timestamp = CACHE_DURATION - 1
    /\ request.entry.data # index_fetch(request.reg)
    /\ response.body.results = request.entry.data

\* an entry of age exactly CACHE_DURATION is fetched again
C12_RefetchAtExpiry ==
    /\ Searched
    /\ request.had_entry
    /\ request.at - request.entry.timestamp = CACHE_DURATION
    /\ response.called

-----------------------------------------------------------------------------
(* C13: custom weights of a /rank request, checked under SpecRank *)

\* a request of the service that carries no weights has been answered 200
AnsweredWithoutWeights ==
    /\ pc = "done"
    /\ response.status = 200
    /\ \/ request.endpoint = "search"
       \/ request.endpoint = "rank" /\ ~request.custom.given

\* C13: a /search request, and a /rank request without weights, is scored
\* with the default weights whatever weights earlier /rank requests carried.
C13_AsStated ==
    AnsweredWithoutWeights =>
        response.ranked = rank_nonprofits(response.nonprofits, DefaultCriteria)

\* the weights such a request is scored with are those of the module-level
\* engine, which the last /rank request with weights left there
C13_ScoredWithEngineCriteria ==
    AnsweredWithoutWeights =>
        response.ranked = rank_nonprofits(response.nonprofits, criteria)

\* a /search request answered with scores that are not those of the default
\* weights
C13_StickyWeights ==
    /\ pc = "done"
    /\ request.endpoint = "search"
    /\ response.status = 200
    /\ criteria # DefaultCriteria
    /\ response.ranked # rank_nonprofits(response.nonprofits, DefaultCriteria)

-----------------------------------------------------------------------------
(* C14 and C15: upstream failures and malformed records, under SpecUpstream *)

\* a search request is over (answered, or left without answer by an exception)
SearchOver ==
    /\ pc = "done"
    /\ request.endpoint \in {"final", "tiger", "local", "county", "index"}
    /\ response.status # 400

\* the registry answers the request in flight could draw on
RequestRegs ==
    IF request.endpoint \in {"final", "tiger"} THEN {request.reg, request.reg2}
    ELSE {request.reg}

\* a registry call was made for the request and every call it made failed
RegistryFailed ==
    /\ \A reg \in RequestRegs : ~RegOk(reg)
    /\ request.endpoint = "index" => response.called
    /\ request.endpoint \in {"local", "county"} =>
          response.body.route # "unknown_zip"

\* the payload has an 'error' field
HasError == "error" \in DOMAIN response.body /\ response.body.error

\* C14: when the registry search call fails the endpoint answers 200 with a
\* payload that has an 'error' field and an empty results list, on the
\* keyword-only path, the static-location path and the geocoder path alike.
C14_AsStated ==
    (SearchOver /\ RegistryFailed) =>
        /\ response.status = 200
        /\ HasError
        /\ response.body.results = <<>>

\* what does hold: the answer is 200 with an empty results list; the 'error'
\* field is there on the keyword path and on local_search and county_search
C14_EmptyResults ==
    (SearchOver /\ RegistryFailed) =>
        /\ response.status = 200
        /\ response.body.results = <<>>
        /\ (response.body.route = "keyword"
                \/ request.endpoint \in {"local", "county"}) => HasError

\* the static-location path of final_search answers a failed registry call
\* without 'error' field
C14_NoErrorField ==
    /\ SearchOver
    /\ RegistryFailed
    /\ request.endpoint = "final"
    /\ response.body.route = "by_location"
    /\ response.status = 200
    /\ ~HasError

\* an organization with every field the handlers read
WellFormed(o) ==
    /\ {"ein", "name"} \subseteq o.keys
    /\ ~o.city_null
    /\ GetState(o) # NullState

Cleaned(reg) ==
    [reg EXCEPT !.organizations = SelectSeq(reg.organizations, WellFormed)]

\* the results of the request in flight had the registry left out every
\* malformed organization
ResultsOfWellFormed ==
    CASE request.endpoint = "final" ->
            final_do_GET(request.query, request.geo, Cleaned(request.reg),
                         Cleaned(request.reg2)).body.results
      [] request.endpoint = "tiger" ->
            tiger_do_GET(request.query, request.geo, Cleaned(request.reg),
                         Cleaned(request.reg2)).body.results
      [] request.endpoint = "county" ->
            county_do_GET(request.zip, request.query,
                          Cleaned(request.reg)).body.results
      [] request.endpoint = "index" -> index_fetch(Cleaned(request.reg))

\* the registry answered every call of the request with a payload
RegistryAnswered ==
    /\ request.endpoint \in {"final", "tiger", "county", "index"}
    /\ \A reg \in RequestRegs : RegOk(reg)
    /\ request.endpoint = "index" => response.called
    /\ request.endpoint = "county" => response.body.route # "unknown_zip"

\* C15: an organization lacking 'ein' or 'name', or with a null city or state,
\* does not abort the request: the request is answered 200 without 'error'
\* field and every well-formed organization that would have been returned
\* without it is still returned.
C15_AsStated ==
    (SearchOver /\ RegistryAnswered) =>
        /\ response.status = 200
        /\ ~HasError
        /\ Eins(ResultsOfWellFormed) \subseteq Eins(response.body.results)

\* a null state aborts nothing: it is only compared for equality
C15_NullStateHarmless ==
    (SearchOver /\ RegistryAnswered
        /\ \A reg \in RequestRegs : \A i \in DOMAIN reg.organizations :
              /\ {"ein", "name"} \subseteq reg.organizations[i].keys
              /\ ~reg.organizations[i].city_null) =>
        /\ response.status = 200
        /\ ~HasError
        /\ Eins(ResultsOfWellFormed) \subseteq Eins(response.body.results)

\* the exception of a record without 'ein' leaves the static-location search
\* of final_search, and the request has no answer
C15_ExceptionEscapes ==
    /\ SearchOver
    /\ RegistryAnswered
    /\ request.endpoint = "final"
    /\ response.status = NoAnswer
    /\ \E i \in DOMAIN request.reg.organizations :
          WellFormed(request.reg.organizations[i])

-----------------------------------------------------------------------------
(* C16: requests that resolve to no organization, under SpecService *)

\* the request in flight resolved to no organization
NoOrganization ==
    /\ pc = "done"
    /\ CASE request.endpoint = "search" -> ~request.any_result
         [] request.endpoint = "rank" -> Resolved(request.details) = <<>>
         [] request.endpoint = "compare" ->
                ~request.detail1.found \/ ~request.detail2.found
         [] request.endpoint \in {"analyze", "nonprofit"} ->
                ~request.detail.found
         [] OTHER -> FALSE

\* C16: a request of the service that resolves to no organization is answered
\* 404, never 500.
C16_AsStated == NoOrganization => response.status = 404

\* only GET /nonprofit/{ein} passes its 404 on
C16_OnlyDetailsAnswers404 ==
    NoOrganization =>
        IF request.endpoint = "nonprofit" THEN response.status = 404
        ELSE response.status = 500 /\ response.detail = 404

\* POST /rank with one EIN that does not resolve is answered 500
C16_RankAnswers500 ==
    /\ NoOrganization
    /\ request.endpoint = "rank"
    /\ Len(request.details) = 1
    /\ response.status = 500

-----------------------------------------------------------------------------
(* C17: timeouts of the external calls, under SpecCall *)

\* C17: every external call has a timeout, so every request is answered in
\* the end even when a service never answers.
C17_AsStated == (pc = "calling") ~> (pc = "done")

\* the calls of the handlers under api/ have timeouts of 5 or 10 seconds,
\* their requests are answered after at most the sum of them
C17_ApiHandlersAnswer ==
    (pc = "calling" /\ request.endpoint \in {"final", "census", "details"})
        ~> (pc = "done" /\ response.status = 200 /\ response.waited <= 25)

\* a request of the service blocked in a call without timeout to a service
\* that never answers
C17_BlockedForever ==
    /\ pc = "calling"
    /\ request.calls # <<>>
    /\ PendingCall.timeout = None
    /\ PendingServer = "silent"

-----------------------------------------------------------------------------
(* C18: background enrichment of POST /search, under SpecEnrich *)

\* POST /search has been answered 200
SearchAnswered ==
    pc = "done" /\ request.endpoint = "search" /\ response.status = 200

\* the answer is the ranking of the organizations as they were collected
AnswerIsRanking ==
    SearchAnswered =>
        /\ response.ranked = rank_nonprofits(response.nonprofits, criteria)
        /\ response.body = [i \in DOMAIN response.ranked |->
                                RankRow(response.ranked[i])]

\* a step of the enrichment leaves the answer, and the overall_score and
\* ranking of every organization, as they are
EnrichmentKeepsScores ==
    (SearchAnswered /\ pc' = "done") =>
        /\ response'.status = response.status
        /\ response'.body = response.body
        /\ \A i \in DOMAIN response.background :
              /\ response'.background[i].overall_score
                    = response.background[i].overall_score
              /\ response'.background[i].ranking
                    = response.background[i].ranking

\* C18: the answer of POST /search is complete when the enrichment is
\* scheduled, it is the ranking made before any enrichment step, and no
\* enrichment step changes it or the overall_score and ranking of an
\* organization.
C18_EnrichmentApart == []AnswerIsRanking /\ [][EnrichmentKeepsScores]_vars

\* the enrichment has changed the data quality score of a ranked organization
\* whose overall score is not zero
C18_Witness ==
    /\ SearchAnswered
    /\ response.enriched > 0
    /\ response.background[1].data_quality_score # 0
    /\ response.background[1].social_media > 0
    /\ response.body[1].overall_score > 0
    /\ Len(response.body) > 1

-----------------------------------------------------------------------------
(* C19: the data quality term, under SpecRank *)

\* a ranking pass of POST /rank or POST /search is over
RankingPassOver ==
    /\ pc = "done"
    /\ request.endpoint \in {"rank", "search"}
    /\ response.status = 200

\* C19: the data quality term _calculate_overall_score reads for an
\* organization is calculate_data_quality of the organization as it is when
\* it is ranked.
C19_AsStated ==
    RankingPassOver =>
        \A i \in DOMAIN response.nonprofits :
            response.nonprofits[i].data_quality_score
                = calculate_data_quality(response.nonprofits[i])

\* what the endpoints rank with: the data_quality_score of the dataclass
\* default, 0, whatever the organization holds
C19_TermIsZero ==
    RankingPassOver =>
        \A i \in DOMAIN response.ranked :
            /\ response.ranked[i].data_quality_score = 0
            /\ response.ranked[i].raises = "none" =>
                  response.ranked[i].overall_score
                      = calculate_overall_score(
                            [response.ranked[i] EXCEPT !.data_quality_score = 0],
                            criteria)

\* an organization with a mission statement, an address and three years of
\* filings is ranked with a data quality term of 0
C19_CompleteRecordScoredZero ==
    /\ RankingPassOver
    /\ \E i \in DOMAIN response.ranked :
          /\ Len(response.ranked[i].financial_history) = 3
          /\ calculate_data_quality(response.ranked[i]) = (55 * Unit) \div 100
          /\ response.ranked[i].data_quality_score = 0

-----------------------------------------------------------------------------
(* C20: the explanation of a mission alignment, under SpecAlign *)

Analysed == pc = "done" /\ request.endpoint = "alignment"

\* C20: the explanation opens with the label of the score of the same
\* result, whatever was stored on the organization before; and an
\* organization whose data did not change is given the same score and the
\* same explanation when it is analysed again.
C20_AsStated ==
    Analysed =>
        /\ response.result.explanation.label
              = AlignmentLabel(response.result.score)
        /\ (request.previous # <<>> /\ ~request.changed) =>
              response.result = request.previous[1]

\* what holds: the label is the one of the score stored before the call, 0
\* for an organization never analysed; the score itself is the same whenever
\* the data is the same
C20_LabelOfStoredScore ==
    Analysed =>
        /\ response.result.explanation.label
              = AlignmentLabel(IF request.nonprofit.mission_alignment = None
                               THEN 0
                               ELSE request.nonprofit.mission_alignment)
        /\ (request.previous # <<>> /\ ~request.changed) =>
              response.result.score = request.previous[1].score

\* an organization never analysed before, scored 0.9 and explained as of
\* limited alignment
C20_StrongCalledLimited ==
    /\ Analysed
    /\ request.previous = <<>>
    /\ response.result.score = (9 * Unit) \div 10
    /\ response.result.explanation.label = "Limited"

-----------------------------------------------------------------------------
(* C21, C22, C23: financial scores, under SpecFinance *)

FinanceOver == pc = "done" /\ request.endpoint = "finance"

FinanceHistory == request.nonprofit.financial_history

\* the filing of the greatest year
LatestFiling ==
    CHOOSE f \in Range(FinanceHistory) :
        \A g \in Range(FinanceHistory) : g.year <= f.year

\* the three terms of the score for the latest filing, in units of 1/Unit.
\* The ratio of assets to liabilities exists when there are liabilities.
RevenueTerm == IF LatestFiling.total_revenue > 0 THEN (3 * Unit) \div 10 ELSE 0

RatioTerm ==
    IF LatestFiling.total_liabilities = 0 THEN 0
    ELSE IF LatestFiling.total_assets > 2 * LatestFiling.total_liabilities
    THEN (3 * Unit) \div 10
    ELSE IF LatestFiling.total_assets > LatestFiling.total_liabilities
    THEN (2 * Unit) \div 10
    ELSE 0

ProgramTerm ==
    IF LatestFiling.total_expenses = 0 THEN 0
    ELSE (4 * LatestFiling.program_expenses * Unit)
            \div (10 * LatestFiling.total_expenses)

\* C21 as stated: 0 for fewer than two years of history, else the capped sum
\* of the three terms.
C21_AsStated ==
    FinanceOver =>
        /\ response.status = 200
        /\ response.stability =
              IF Len(FinanceHistory) < 2 THEN 0
              ELSE Min(Unit, RevenueTerm + RatioTerm + ProgramTerm)

\* C21: 0.5 for fewer than two years of history, else the capped sum of the
\* three terms, the ratio term being 0 for an organization without
\* liabilities.
C21_HalfWhenShortElseSum ==
    FinanceOver =>
        /\ response.status = 200
        /\ response.stability =
              IF Len(FinanceHistory) < 2 THEN Unit \div 2
              ELSE Min(Unit, RevenueTerm + RatioTerm + ProgramTerm)

\* two years of history, assets and no liabilities, program expenses above
\* the total: no ratio term, and a sum that the cap cuts
C21_Witness ==
    /\ FinanceOver
    /\ Len(FinanceHistory) = 2
    /\ LatestFiling.total_liabilities = 0
    /\ LatestFiling.total_assets = 300
    /\ RevenueTerm + ProgramTerm > Unit
    /\ response.stability = Unit

\* C22: with no filing or one filing the stability score is exactly 0.5 and
\* nothing is raised.
C22_ShortHistoryGivesHalf ==
    (FinanceOver /\ Len(FinanceHistory) < 2) =>
        /\ response.status = 200
        /\ response.stability = Unit \div 2

\* one filing that would score 1.0 by its amounts
C22_Witness ==
    /\ FinanceOver
    /\ Len(FinanceHistory) = 1
    /\ RevenueTerm + RatioTerm + ProgramTerm = Unit
    /\ response.stability = Unit \div 2

\* C23: for a filing without expenses both ratios are 0 and nothing is
\* raised; otherwise they are the program expenses, and the administrative
\* plus fundraising expenses, over the total expenses.
C23_RatiosGuarded ==
    FinanceOver =>
        /\ response.status = 200
        /\ \A i \in DOMAIN FinanceHistory :
              LET f == FinanceHistory[i]
                  r == response.ratios[i]
              IN IF f.total_expenses = 0
                 THEN r.program_expense_ratio = 0 /\ r.overhead_ratio = 0
                 ELSE /\ r.program_expense_ratio * f.total_expenses
                            = f.program_expenses * Unit
                      /\ r.overhead_ratio * f.total_expenses
                            = (f.administrative_expenses
                                 + f.fundraising_expenses) * Unit

\* a filing without expenses whose program and overhead amounts are not 0,
\* beside one with expenses
C23_Witness ==
    /\ FinanceOver
    /\ response.status = 200
    /\ Len(FinanceHistory) = 2
    /\ FinanceHistory[1].total_expenses > 0
    /\ response.ratios[1].program_expense_ratio = Unit
    /\ FinanceHistory[2].total_expenses = 0
    /\ FinanceHistory[2].program_expenses > 0
    /\ FinanceHistory[2].administrative_expenses > 0
    /\ response.ratios[2].program_expense_ratio = 0
    /\ response.ratios[2].overhead_ratio = 0

-----------------------------------------------------------------------------
(* C24: the end-to-end scenario "75201 food bank", under SpecScenario *)

ScenarioOver ==
    /\ pc = "done"
    /\ request.endpoint = "final"
    /\ request.query = q75201FoodBank

CityIs(org, name) == Lower(GetCity(org).s) = Lower(name)

-----------------------------------------------------------------------------
(* C25: the search a fetch function issues is determined by its cache key,
   under SpecKeys *)

KeyedOver ==
    pc = "done" /\ request.endpoint = "tiger_cached" /\ request.cached

\* C25 as stated: two requests with the same cache key issue the same
\* upstream request.  The registry answering by the search text alone, the
\* entry a request is served under its key is then the answer to the search
\* the request would have issued itself.
C25_AsStated ==
    (KeyedOver /\ ~request.called) =>
        request.data = RegistryAnswer(request.q)

\* a request of the fallback path for 'a' near Dallas, TX is served the
\* entry that a request of the static path stored for the bare search 'a'
C25_KeySharedByTwoSearches ==
    /\ KeyedOver
    /\ ~request.called
    /\ request.cache_key = tiger_search_key(sa, "TX")
    /\ request.q = sa \o <<" ">> \o sDallas \o <<" ">> \o <<"T", "X">>
    /\ request.data = RegistryAnswer(sa)
    /\ response.body.route = "api_fallback"
    /\ \E i \in DOMAIN response.body.results :
          response.body.results[i].state = "FL"

-----------------------------------------------------------------------------
(* C26: two concurrent get_cached_or_fetch calls for one key, under SpecRace *)

Fetched(p) == request[p].fetched # NoFetch

\* what the store of request p wrote
Written(p) == [data |-> request[p].fetched, timestamp |-> request[p].stored_at]

\* both calls are over and were for the same key
RaceDone ==
    /\ \A p \in Requests : pc[p] = "done"
    /\ request[1].cache_key = request[2].cache_key

\* C26: however the membership test, the read, the comparison, the fetch and
\* the store of two calls for one key interleave, neither call raises; a call
\* that is over returned either an entry it read that was younger than
\* CACHE_DURATION at its comparison or the result of its own fetch, and the
\* key is in the cache; when both are over the key's one entry is what the
\* later store wrote (the entry they read when neither fetched).
C26_RaceIsBenign ==
    /\ \A p \in Requests : pc[p] # "raised"
    /\ \A p \in Requests : pc[p] = "done" =>
          /\ request[p].cache_key \in DOMAIN cache
          /\ IF Fetched(p) THEN response[p] = request[p].fetched
             ELSE /\ response[p] = request[p].entry.data
                  /\ request[p].compared_at - request[p].entry.timestamp
                        < CACHE_DURATION
    /\ RaceDone =>
          LET entry == cache[request[1].cache_key]
              writers == {p \in Requests : Fetched(p)}
          IN IF writers = {} THEN \A p \in Requests : entry = request[p].entry
             ELSE /\ \E p \in writers : entry = Written(p)
                  /\ \A p \in writers : entry.timestamp >= request[p].stored_at

\* both calls found the key's entry expired, fetched different results one
\* after the other, and the entry is the one stored last
C26_Witness ==
    /\ RaceDone
    /\ \A p \in Requests : Fetched(p) /\ request[p].entry # NoEntry
    /\ request[1].fetched = 1
    /\ request[2].fetched = None
    /\ request[1].stored_at < request[2].stored_at
    /\ cache[request[1].cache_key] = Written(2)
    /\ response[1] = 1

-----------------------------------------------------------------------------
(* C27: a failure result is cached like any other, under SpecStale *)

StaleOver == pc = "done" /\ request.endpoint = "final_cached"

\* the entry the request found was younger than CACHE_DURATION
FoundFresh ==
    request.had_entry /\ request.at - request.entry.timestamp < CACHE_DURATION

\* C27: get_cached_or_fetch stores whatever fetch_func returned, a failure
\* result (None of a failed ZIP lookup, the empty organizations payload)
\* included, and a request that finds a stored failure younger than 3600
\* seconds is given it without an upstream call, whatever the upstream
\* service would answer now.
C27_FailureCachedForAnHour ==
    StaleOver =>
        /\ request.called =>
              /\ request.cache_key \in DOMAIN cache
              /\ cache[request.cache_key].data = request.fetched
        /\ (FoundFresh /\ FetchFailed(request.entry.data)) =>
              /\ ~request.called
              /\ request.data = request.entry.data
              /\ cache[request.cache_key] = request.entry

\* a ZIP lookup that timed out 3599 seconds ago is served to a request for
\* which the geocoder and the registry would both answer: the request is
\* answered by the keyword search
C27_Witness ==
    /\ StaleOver
    /\ FoundFresh
    /\ request.at - request.entry.timestamp = CACHE_DURATION - 1
    /\ request.cache_key = final_zip_key(z75299)
    /\ request.entry.data = [found |-> FALSE, cause |-> "timeout"]
    /\ request.answer.kind = "ok"
    /\ RegOk(request.reg)
    /\ ~request.called
    /\ response.body.route = "keyword"

\* an empty payload stored when the registry timed out is served to a
\* request for which the registry would answer with an organization
C27_EmptyPayloadServed ==
    /\ StaleOver
    /\ FoundFresh
    /\ request.cache_key = final_search_key(sa)
    /\ request.entry.data.organizations = <<>>
    /\ RegOk(request.reg) /\ request.reg.organizations # <<>>
    /\ ~request.called
    /\ response.body.total = 0

-----------------------------------------------------------------------------
(* C28: the state of the candidates of the city and county tiers, under
   SpecTier *)

\* the two-letter state of the resolved location
LocationState ==
    IF request.endpoint = "census" THEN response.body.location.state_abbr
    ELSE response.body.location.state

\* C28 as stated: every candidate of the exact (same-city) tier or of the
\* county tier has the state of the resolved location.
C28_AsStated ==
    TieredBy({"final", "tiger", "census"}) =>
        /\ \A i \in DOMAIN response.body.exact_city :
              response.body.exact_city[i].state = LocationState
        /\ \A i \in DOMAIN response.body.same_county :
              response.body.same_county[i].state = LocationState

\* for a ZIP code of Dallas, TX an organization of Dallas, GA is in the
\* exact tier and leads the results
C28_OtherStateIsLocal ==
    /\ TieredBy({"final"})
    /\ response.body.location.city = sDallas
    /\ response.body.location.state = "TX"
    /\ response.body.exact_city # <<>>
    /\ response.body.exact_city[1].state = "GA"
    /\ response.body.results[1].state = "GA"

-----------------------------------------------------------------------------
(* C29: a candidate without city is not local, under SpecLocality *)

\* the candidates the answer holds as of the city or of the county
LocalTier ==
    IF "exact_city" \in DOMAIN response.body
    THEN response.body.exact_city \o response.body.same_county
    ELSE IF "local_results" \in DOMAIN response.body
    THEN response.body.local_results
    ELSE <<>>

\* C29 as stated: in final_search, tiger_search, census_geo_search,
\* county_search, smart_local_search and local_search a candidate whose city
\* is the empty string is never in the exact, local or county tier.
C29_AsStated ==
    (pc = "done" /\ response.status = 200) =>
        \A i \in DOMAIN LocalTier : LocalTier[i].city # sEmpty

\* /api/smart-search holds an organization without city as local to Dallas
C29_NoCityIsLocal ==
    /\ pc = "done"
    /\ request.endpoint = "smart"
    /\ response.status = 200
    /\ response.body.route = "by_location"
    /\ response.body.city = sDallas
    /\ response.body.local_results # <<>>
    /\ response.body.local_results[1].city = sEmpty
    /\ response.body.results[1].city = sEmpty

\* C29, the other five: in final_search, tiger_search, census_geo_search,
\* county_search and local_search a candidate without city is in no local
\* tier.
C29_HoldsButForSmartSearch ==
    (pc = "done" /\ response.status = 200 /\ request.endpoint # "smart") =>
        \A i \in DOMAIN LocalTier : LocalTier[i].city # sEmpty

-----------------------------------------------------------------------------
(* C30: comparing two ranked organizations, under SpecService *)

Compared ==
    /\ pc = "done"
    /\ request.endpoint = "compare"
    /\ request.detail1.found
    /\ request.detail2.found

\* C30 as stated: for any two organizations that rank_nonprofits returned,
\* the lower one scored 0 or both scored alike included, compare_nonprofits
\* returns a comparison with a recommendation and raises nothing.
C30_AsStated ==
    Compared =>
        /\ response.status = 200
        /\ response.recommended \in {request.detail1.ein, request.detail2.ein}

\* two organizations whose scoring failed are ranked with overall_score 0
\* under the default weights; the percentage divides by the lower score and
\* the request ends as a 500
C30_DivisionByZero ==
    /\ Compared
    /\ criteria = DefaultCriteria
    /\ response = [status |-> 500, detail |-> 0]

\* C30, where the divisor is not 0: the comparison recommends the
\* organization ranked first, the second one when the scores are equal.
C30_ComparesPositiveScores ==
    (Compared /\ response.status = 200) =>
        /\ response.ranked[1].overall_score > 0
        /\ response.ranked[2].overall_score > 0
        /\ response.recommended =
              IF response.ranked[1].overall_score
                    > response.ranked[2].overall_score
              THEN response.ranked[1].ein ELSE response.ranked[2].ein

====
